---- MODULE Spec2Model ----
(***************************************************************************)
(* Verification model of the OpenVoiceUI conversation pipeline:           *)
(*   - the streaming response generator of routes/conversation.py         *)
(*     (gateway events in, NDJSON client events out, parallel TTS          *)
(*     workers with in-order flush),                                       *)
(*   - the voice-session counter of routes/conversation.py and the        *)
(*     separate one of server.py that backs POST /api/session/reset.      *)
(* Text is modelled as sequences of one-character strings, so that the    *)
(* string functions of the code are computed, not assumed.                *)
(***************************************************************************)
EXTENDS Integers, Sequences, FiniteSets, TLC

(***************************************************************************)
(* Text: a Python str is a sequence of one-character strings.  None is    *)
(* Python's None.                                                          *)
(***************************************************************************)
\* a value no text equals (a text holds one-character strings only)
None == <<"None">>

\* conversation.py:609  _extract_sentence(text, min_len=40)
MinSentence == 40

Terminators == {".", "!", "?"}

\* str.isspace() on the characters the model draws
IsSpace(c) == c = " "

\* characters matched by the regular expression class \w
WordChars ==
    {"a", "t", "m", "p", "N", "O", "Y", "E", "S", "I", "R", "T", "_"}

\* [A-Za-z0-9]
AlnumChars == WordChars \ {"_"}

\* s[a..b] with Python's slice clamping (1-based, inclusive)
Slice(s, a, b) == IF a > b THEN <<>> ELSE SubSeq(s, a, b)

Rep(c, n) == [i \in 1..n |-> c]

\* the least element of a non-empty set of integers
MinOf(S) == CHOOSE x \in S : \A y \in S : x <= y

\* the least (greatest) element of S, 0 when S is empty
FirstOf(S) == IF S = {} THEN 0 ELSE MinOf(S)

LastOf(S) == IF S = {} THEN 0 ELSE 0 - MinOf({0 - x : x \in S})

\* s[i:] for a 1-based position i, '' when i is 0 (nothing found)
From(s, i) == IF i = 0 THEN <<>> ELSE Slice(s, i, Len(s))

\* str.lstrip()
LStrip(s) == From(s, FirstOf({k \in 1..(Len(s)) : ~IsSpace(s[k])}))

\* str.rstrip()
RStrip(s) == Slice(s, 1, LastOf({k \in 1..(Len(s)) : ~IsSpace(s[k])}))

\* str.strip()
Strip(s) == LStrip(RStrip(s))

\* str.count(c) for a single character
Count(s, c) == Cardinality({i \in 1..Len(s) : s[i] = c})

\* s starts with p at (1-based) position i
StartsAt(s, p, i) ==
    /\ i >= 1
    /\ i + Len(p) - 1 <= Len(s)
    /\ Slice(s, i, i + Len(p) - 1) = p

StartsWith(s, p) == StartsAt(s, p, 1)

\* `p in s`
Contains(s, p) == \E i \in 1..Len(s) : StartsAt(s, p, i)

\* the position of the first occurrence of p in s at or after i, 0 if none
FindFrom(s, p, i) == FirstOf({j \in i..(Len(s)) : StartsAt(s, p, j)})

\* str.count(p): non-overlapping occurrences, scanned left to right; j is
\* the position of the next occurrence
RECURSIVE CountSubAt(_, _, _)
CountSubAt(s, p, j) ==
    IF j = 0 THEN 0 ELSE 1 + CountSubAt(s, p, FindFrom(s, p, j + Len(p)))

CountSub(s, p) == CountSubAt(s, p, FindFrom(s, p, 1))

\* str.replace(p, ''): removes every non-overlapping occurrence; j is the
\* position of the first occurrence in s
RECURSIVE RemoveAt(_, _, _)
RemoveAll(s, p) == RemoveAt(s, p, FindFrom(s, p, 1))

RemoveAt(s, p, j) ==
    IF j = 0 THEN s
    ELSE Slice(s, 1, j - 1) \o RemoveAll(Slice(s, j + Len(p), Len(s)), p)

\* str.upper() on the characters the model draws
UpperChar(c) ==
    CASE c = "a" -> "A"
      [] c = "t" -> "T"
      [] c = "m" -> "M"
      [] c = "p" -> "P"
      [] OTHER -> c

Upper(s) == [i \in 1..Len(s) |-> UpperChar(s[i])]

\* the backquote character (U+0060)
Backtick == "BT"

Fence == <<Backtick, Backtick, Backtick>>

\* conversation.py:600  _has_open_tag
HasOpenTag(text) ==
    \/ Count(text, "[") > Count(text, "]")
    \/ CountSub(text, Fence) % 2 # 0

\* the ends (Python match.end()) of the matches of [.!?](?= |\Z)
BoundaryEnds(text) ==
    {i \in 1..Len(text) :
        /\ text[i] \in Terminators
        /\ (i = Len(text) \/ text[i + 1] = " ")}

\* conversation.py:617-619: the cut at the first boundary end >= min_len,
\* end = 0 when there is none
CutAt(text, end) ==
    IF end = 0 THEN <<None, text>>
    ELSE <<Strip(Slice(text, 1, end)), LStrip(Slice(text, end + 1, Len(text)))>>

\* conversation.py:609  _extract_sentence: <<sentence or None, remainder>>
ExtractSentence(text) ==
    CutAt(text, FirstOf({e \in BoundaryEnds(text) : e >= MinSentence}))

(***************************************************************************)
(* clean_for_tts (conversation.py:271-372), computed on texts over        *)
(* Alphabet.  The substitutions that need a character outside Alphabet    *)
(* (the CANVAS/MUSIC/SUNO/SPOTIFY tags, '#', digits, bullets, tables,    *)
(* '*', links, URLs, '&%$@#+=', newlines) cannot match and are left out.  *)
(***************************************************************************)
Alphabet == WordChars \cup {".", "!", "?", " ", "[", "]", "/", Backtick}

\* r is text.rstrip(): text without a trailing word w that follows whitespace
TrailingWordCut(text, r, w) ==
    IF Len(r) > Len(w) /\ StartsAt(r, w, Len(r) - Len(w) + 1) /\ IsSpace(r[Len(r) - Len(w)])
    THEN RStrip(Slice(r, 1, Len(r) - Len(w)))
    ELSE text

\* re.sub(r'\s+W\s*$', '', text): a trailing word W after whitespace
StripTrailingWord(text, w) == TrailingWordCut(text, RStrip(text), w)

\* open is the position of the first fence of s, close that of the next one
RECURSIVE FencedCut(_, _, _)
RemoveFenced(s) == FencedCut(s, FindFrom(s, Fence, 1), FindFrom(s, Fence, FindFrom(s, Fence, 1) + 3))

\* re.sub(r'```[\s\S]*?```', '', text)
FencedCut(s, open, close) ==
    IF open = 0 \/ close = 0 THEN s
    ELSE Slice(s, 1, open - 1) \o RemoveFenced(Slice(s, close + 3, Len(s)))

\* d [^x]+ d  starts at i when j is the first x at or after i + Len(d)
ClosesAt(s, d, i, j) ==
    IF StartsAt(s, d, i) /\ j > i + Len(d) /\ StartsAt(s, d, j)
    THEN j + Len(d) - 1
    ELSE 0

\* the end of the match of  d [^x]+ d  that starts at position i, 0 if none
\* (x is the character no inner character may equal)
DelimitedEnd(s, d, x, i) ==
    ClosesAt(s, d, i, FirstOf({k \in i + Len(d)..(Len(s)) : s[k] = x}))

\* the position where the leftmost match of  d [^x]+ d  starts, 0 if none
DelimitedStart(s, d, x) ==
    FirstOf({k \in 1..(Len(s)) : s[k] = x /\ DelimitedEnd(s, d, x, k) # 0})

\* re.sub of  d([^x]+)d  by the group (keep = TRUE) or by '' (keep = FALSE);
\* i and e are the start and the end of the leftmost match
RECURSIVE SubDelimitedAt(_, _, _, _, _, _)
SubDelimited(s, d, x, keep) ==
    SubDelimitedAt(s, d, x, keep, DelimitedStart(s, d, x),
                   DelimitedEnd(s, d, x, DelimitedStart(s, d, x)))

SubDelimitedAt(s, d, x, keep, i, e) ==
    IF i = 0 THEN s
    ELSE Slice(s, 1, i - 1)
         \o (IF keep THEN Slice(s, i + Len(d), e - Len(d)) ELSE <<>>)
         \o SubDelimited(Slice(s, e + 1, Len(s)), d, x, keep)

\* the run that starts at i and stops before position stop (0: at the end)
RunLength(s, i, stop) ==
    IF stop # 0 THEN stop - i
    ELSE IF i > Len(s) THEN 0
    ELSE Len(s) - i + 1

\* the length of the longest run of characters of cls that starts at i
SpanAt(s, cls, i) == RunLength(s, i, FirstOf({j \in i..(Len(s)) : s[j] \notin cls}))

PathChars == WordChars \cup {"/", "."}

\* re.sub(r'/[\w/.-]+', '', text); i is where the leftmost match starts
RECURSIVE PathCut(_, _)
RemovePaths(s) ==
    PathCut(s, FirstOf({k \in 1..(Len(s)) : s[k] = "/" /\ SpanAt(s, PathChars, k + 1) >= 1}))

PathCut(s, i) ==
    IF i = 0 THEN s
    ELSE Slice(s, 1, i - 1)
         \o RemovePaths(Slice(s, i + 1 + SpanAt(s, PathChars, i + 1), Len(s)))

\* W matches \bW\b at position i
WordAt(s, w, i) ==
    /\ StartsAt(s, w, i)
    /\ (i = 1 \/ s[i - 1] \notin WordChars)
    /\ (i + Len(w) > Len(s) \/ s[i + Len(w)] \notin WordChars)

\* re.sub(r'\bW\b', exp, text); i is where the leftmost match starts
RECURSIVE WordCut(_, _, _, _)
SubWord(s, w, exp) == WordCut(s, w, exp, FirstOf({k \in 1..(Len(s)) : WordAt(s, w, k)}))

WordCut(s, w, exp, i) ==
    IF i = 0 THEN s
    ELSE \* what follows the match starts at a non-word character or is empty,
         \* so the boundary before it is the one the whole text has there
         Slice(s, 1, i - 1) \o exp \o
         (IF i + Len(w) > Len(s) THEN <<>>
          ELSE <<s[i + Len(w)]>> \o SubWord(Slice(s, i + Len(w) + 1, Len(s)), w, exp))

\* re.sub(r'c{2,}', 'c', text) for whitespace (\s+ -> ' ') or dots; i is
\* where the first run of two or more starts
RECURSIVE RunCut(_, _, _)
Collapse(s, c) == RunCut(s, c, FirstOf({k \in 1..(Len(s) - 1) : s[k] = c /\ s[k + 1] = c}))

RunCut(s, c, i) ==
    IF i = 0 THEN s
    ELSE Slice(s, 1, i) \o Collapse(Slice(s, i + SpanAt(s, {c}, i), Len(s)), c)

\* re.sub(r'\.\s*\.', '.', text) on text whose whitespace runs and dot runs
\* have been collapsed: the non-overlapping matches are '. .'
RECURSIVE DotCut(_, _)
SubDotSpaceDot(s) == DotCut(s, FindFrom(s, <<".", " ", ".">>, 1))

DotCut(s, j) ==
    IF j = 0 THEN s
    ELSE Slice(s, 1, j) \o SubDotSpaceDot(Slice(s, j + 3, Len(s)))

\* re.sub(r'^[.,;:\s]+', '', text)
StripLeadingPunct(s) == Slice(s, SpanAt(s, {".", " "}, 1) + 1, Len(s))

BareAnswers ==
    {<<"N", "O">>, <<"Y", "E", "S">>, <<"N", "O", ".">>, <<"Y", "E", "S", ".">>}

\* conversation.py:276-280
StripReasoningTokens(text) ==
    IF Upper(Strip(text)) \in BareAnswers THEN text
    ELSE StripTrailingWord(StripTrailingWord(text, <<"N", "O">>), <<"Y", "E", "S">>)

\* conversation.py:327-330 on the stripped line
PausedLine(text, stripped) ==
    IF /\ stripped # <<>>
       /\ Len(stripped) < 80
       /\ stripped[Len(stripped)] \notin {".", "!", "?"}
       /\ stripped[1] \in AlnumChars
    THEN stripped \o <<".">>
    ELSE text

\* conversation.py:325-331 (one line: the alphabet has no newline)
LinePause(text) == PausedLine(text, Strip(text))

TtsWords == <<"t", "e", "x", "t", " ", "t", "o", " ", "s", "p", "e", "e", "c", "h">>

SttWords == <<"s", "p", "e", "e", "c", "h", " ", "t", "o", " ", "t", "e", "x", "t">>

\* conversation.py:344-354: the acronyms that can be written over Alphabet
ExpandAcronyms(text) ==
    SubWord(SubWord(text, <<"T", "T", "S">>, TtsWords), <<"S", "T", "T">>, SttWords)

\* conversation.py:282-372, the substitutions in the order of the code
CleanSteps(text) ==
    StripLeadingPunct(
      SubDotSpaceDot(
        Strip(
          Collapse(
            Collapse(
              ExpandAcronyms(
                RemovePaths(
                  SubDelimited(
                    SubDelimited(
                      LinePause(
                        SubDelimited(RemoveFenced(StripReasoningTokens(text)),
                                     <<Backtick>>, Backtick, FALSE)),
                      <<"_", "_">>, "_", TRUE),
                    <<"_">>, "_", TRUE))),
              "."),
            " "))))

\* conversation.py:271  clean_for_tts
CleanForTts(text) == IF text = None \/ text = <<>> THEN <<>> ELSE CleanSteps(text)

(***************************************************************************)
(* The other text functions of the streaming handler.                     *)
(***************************************************************************)
\* Python truthiness of an optional str
Truthy(text) == text # None /\ text # <<>>

\* str.rfind(c) as a 1-based position, 0 when absent (Python: -1)
RFind(s, c) == LastOf({i \in 1..(Len(s)) : s[i] = c})

\* conversation.py:265-268: last is the 1-based position of the last
\* terminator of chunk; Python tests last_boundary > 0 on 0-based indices, so
\* position 1 does not count
TruncatedChunk(chunk, last) ==
    IF last > 1 THEN Strip(Slice(chunk, 1, last)) ELSE Strip(chunk)

LastTerminator(chunk) ==
    LastOf({RFind(chunk, "."), RFind(chunk, "!"), RFind(chunk, "?")})

\* conversation.py:258  _truncate_at_sentence
TruncateAtSentence(text, maxChars) ==
    IF ~Truthy(text) \/ Len(text) <= maxChars THEN text
    ELSE TruncatedChunk(Slice(text, 1, maxChars),
                        LastTerminator(Slice(text, 1, maxChars)))

\* conversation.py:699-701: a bare NO/YES answer to a system trigger
IsSentinel(userMsg, response) ==
    /\ StartsWith(userMsg, <<"_", "_">>)
    /\ Truthy(response)
    /\ Upper(Strip(response)) \in BareAnswers

\* conversation.py:732  not full_response or not full_response.strip()
IsEmptyResponse(response) == ~Truthy(response) \/ Strip(response) = <<>>

SessionResetMarker ==
    <<"[", "S", "E", "S", "S", "I", "O", "N", "_", "R", "E", "S", "E", "T", "]">>

\* conversation.py:750
HasResetMarker(response) == Truthy(response) /\ Contains(response, SessionResetMarker)

\* conversation.py:756
StripResetMarker(response) == Strip(RemoveAll(response, SessionResetMarker))

TmpPrefix == <<"/", "t", "m", "p", "/">>

\* re.match(r'^/tmp/[\w/.-]+$', t)
IsTmpPath(t) ==
    /\ StartsWith(t, TmpPrefix)
    /\ Len(t) > Len(TmpPrefix)
    /\ \A i \in (Len(TmpPrefix) + 1)..Len(t) : t[i] \in PathChars

\* conversation.py:759  re.match(r'^/tmp/[\w/.-]+$', full_response.strip())
IsAgentFilePath(response) == Truthy(response) /\ IsTmpPath(Strip(response))

\* conversation.py:628  cleaned and cleaned.strip()
IsSpeakable(cleaned) == cleaned # <<>> /\ Strip(cleaned) # <<>>

\* conversation.py:800-801  tts_text and tts_text.strip()
Speakable(text) == IsSpeakable(CleanForTts(text))

(***************************************************************************)
(* State.                                                                  *)
(***************************************************************************)
VARIABLES
    \* routes/conversation.py module state
    convFile,          \* content of conversation.py's VOICE_SESSION_FILE
    convCache,         \* _session_key_cache
    consecutiveEmpty,  \* _consecutive_empty_responses
    \* the streaming request in flight (_conversation_inner / stream_response)
    pc,                \* "idle", "loop" (event_queue.get), "drain", "done"
    userMessage,       \* user_message
    maxResponseChars,  \* max_response_chars (0: None)
    sessionKey,        \* _session_key captured before the gateway thread starts
    ttsBuf,            \* _tts_buf
    tasks,             \* every (done_event, result) _fire_tts created, in order
    pending,           \* _tts_pending, as indices into tasks
    chunksSent,        \* _chunks_sent
    fullResponse,      \* full_response
    drainIdx,          \* i of the drain loop's enumerate (0-based)
    totalChunks,       \* total_chunks
    out,               \* the events yielded to the client, in order
    \* bookkeeping of the run, read by the properties only
    nRequests, nDeltas, nActions,
    started,           \* the generator has taken a first event from the queue
    gotAction,         \* an action event has been taken from the queue
    outAtBump,         \* Len(out) when the session was first bumped, -1 before
    \* the handlers of other requests that call bump_voice_session concurrently
    bpc,               \* per thread: "idle", "got", "read", "trunc", "written"
    bctr,              \* per thread: the local variable counter
    nBumpCalls,        \* calls started (bookkeeping)
    returned,          \* the keys get/bump_voice_session returned, in order
    \* server.py module state and POST /api/session/reset
    srvFile,           \* content of server.py's VOICE_SESSION_FILE
    resetResponse,     \* the JSON body of the last successful reset
    resetAt,           \* nRequests when that reset answered (bookkeeping)
    keyAtReset,        \* the key of the last request before it (bookkeeping)
    nResets,
    \* every text_done the orchestrator took from a gateway, in order, with
    \* what its handler did (bookkeeping)
    doneLog,
    \* the JSON body of the last non-streaming answer
    reply,
    \* whether the process may read / write VOICE_SESSION_FILE
    convPerm,
    \* services/gateway_manager.py and plugins/openai-compat/gateway.py
    registry,          \* GatewayManager._gateways with each is_configured()
    sessions,          \* _sessions: the history of every session key
    gwCall,            \* the last stream_to_queue call: inputs, queue, payload
    appended,          \* per key, every entry ever appended (bookkeeping)
    nGwCalls,
    \* POST /api/conversation: its answer, and routes/canvas.py canvas_context
    httpStatus,        \* status of the last answer (0: none yet)
    posted,            \* the last request body and how many came (bookkeeping)
    canvasContext,     \* canvas_context['current_page']
    \* the durable sink (conversation.py:54-97)
    dbQueue,           \* _db_write_queue: the items not yet taken
    dbUnfinished,      \* Queue.unfinished_tasks
    dbWriter,          \* the item the writer thread holds, NoItem while it polls
    dbLog,             \* every item the writer finished, with its outcome
    dbFlush,           \* the _flush_db_writes call in progress or returned
    nEnqueued,         \* items ever put (bookkeeping)
    \* the delta events the generator took from the gateway in the current
    \* request (bookkeeping)
    deltaLog,
    \* routes/elevenlabs_hybrid.py: the canvas command side channel
    canvasPending,     \* _canvas_pending
    canvasLock,        \* _canvas_lock: the thread that holds it, NoThread if free
    sidePc,            \* per thread: where it is in its handler
    sideLocal,         \* per thread: the local variable commands
    queuedLog,         \* the commands in the order they were appended (bookkeeping)
    delivered,         \* the command lists the GETs returned, in order of return
    \* routes/music.py: the track reservation
    musicState,        \* reserved_track, reserved_at, reservation_id
    clock,             \* time.time(), in seconds
    confirm,           \* the confirm request in progress, or the last one
    nReservations,     \* reservations made (bookkeeping; also the next id)
    \* services/tts.py and services/speech_normalizer.py: one call each
    ttsCall,           \* generate_tts_chunked: what the provider does, the result
    normCall,          \* normalize: the text, max_length, the results
    \* services/gateway_manager.py: plugin discovery
    loader             \* _load_plugins: the directories, the loop's position

streamVars ==
    <<pc, userMessage, maxResponseChars, sessionKey, ttsBuf, tasks, pending,
      chunksSent, fullResponse, drainIdx, totalChunks, out,
      nRequests, nDeltas, nActions, started, gotAction, outAtBump>>

bumpVars == <<bpc, bctr, nBumpCalls, returned>>

serverVars == <<srvFile, resetResponse, resetAt, keyAtReset, nResets>>

sessionVars == <<convFile, convCache, consecutiveEmpty, bumpVars, serverVars>>

\* what the streaming request and the session functions leave alone
gatewayVars == <<registry, sessions, gwCall, appended, nGwCalls>>

sinkVars ==
    <<httpStatus, posted, canvasContext, dbQueue, dbUnfinished, dbWriter, dbLog, dbFlush,
      nEnqueued>>

sideVars == <<canvasPending, canvasLock, sidePc, sideLocal, queuedLog, delivered>>

musicVars == <<musicState, clock, confirm, nReservations>>

callVars == <<ttsCall, normCall, loader>>

\* the state of the other routes and services
auxVars == <<sinkVars, sideVars, musicVars, callVars>>

restVars == <<doneLog, reply, convPerm, gatewayVars, auxVars, deltaLog>>

\* the conversation route, its session functions and the gateways
coreVars == <<sessionVars, streamVars, doneLog, reply, convPerm, gatewayVars, deltaLog>>

\* what the gateways leave alone
modelVars == <<sessionVars, streamVars, doneLog, reply, convPerm, auxVars, deltaLog>>

(***************************************************************************)
(* Voice session keys (routes/conversation.py:123-166).                   *)
(***************************************************************************)
\* conversation.py:144, 158
DefaultCounter == 6

VoicePrefix == "voice-main"

NoKey == [prefix |-> "", n |-> 0]

\* f'{prefix}-{counter}'
SessionKeyOf(prefix, counter) == [prefix |-> prefix, n |-> counter]

FileMissing == [st |-> "missing", n |-> 0]

\* open('w') has truncated the file and the buffered digits are not flushed yet
FileEmpty == [st |-> "empty", n |-> 0]

FileOf(counter) == [st |-> "num", n |-> counter]

\* the file holds something int() rejects
FileCorrupt == [st |-> "corrupt", n |-> 0]

\* the permissions a deployment normally gives the process
ReadWrite == [r |-> TRUE, w |-> TRUE]

\* int(f.read().strip()) under except (FileNotFoundError, ValueError)
ReadCounter(file, default) == IF file.st = "num" THEN file.n ELSE default

\* conversation.py:128  get_voice_session_key, without interleaving:
\* <<key, file after, cache after>>
GetVoiceSessionKey(file, cache) ==
    IF cache # NoKey THEN <<cache, file, cache>>
    ELSE LET counter == ReadCounter(file, DefaultCounter)
             key == SessionKeyOf(VoicePrefix, counter) IN
         <<key, IF file.st = "num" THEN file ELSE FileOf(counter), key>>

\* conversation.py:159
BumpedCounter(counter) == counter + 1

\* conversation.py:151  bump_voice_session, without interleaving:
\* <<new key, file after>>; the cache becomes the new key and
\* _consecutive_empty_responses becomes 0
BumpVoiceSession(file) ==
    LET counter == BumpedCounter(ReadCounter(file, DefaultCounter)) IN
    <<SessionKeyOf(VoicePrefix, counter), FileOf(counter)>>

\* an entry of the history of returned keys
Returned(op, key) == [op |-> op, n |-> key.n]

\* server.py:159, 170
SrvDefaultCounter == 1

\* server.py:155  os.getenv("GATEWAY_SESSION_KEY_PREFIX", "voice-main")
SrvPrefix == "voice-main"

\* server.py:153  get_voice_session_key: <<key, file after>>
SrvGetVoiceSessionKey(file) ==
    LET counter == ReadCounter(file, SrvDefaultCounter) IN
    <<SessionKeyOf(SrvPrefix, counter),
      IF file.st = "num" THEN file ELSE FileOf(counter)>>

\* server.py:164  bump_voice_session: <<new key, file after>>
SrvBumpVoiceSession(file) ==
    LET counter == ReadCounter(file, SrvDefaultCounter) + 1 IN
    <<SessionKeyOf(SrvPrefix, counter), FileOf(counter)>>

NoReset == [old |-> NoKey, new |-> NoKey, mode |-> "none"]

\* no non-streaming request has been answered
NoReply ==
    [response |-> <<"None">>, fallbackUsed |-> 0, profile |-> "none",
     gateway |-> <<"None">>, audio |-> FALSE]

(***************************************************************************)
(* Client events and TTS tasks.                                            *)
(***************************************************************************)
NoNum == 0 - 1

\* one NDJSON line; `from` names the yield statement that wrote it and
\* `task` the TTS task whose result it carries (bookkeeping)
Ev(type, text, chunk, total, task, from) ==
    [type |-> type, text |-> text, chunk |-> chunk, total |-> total,
     task |-> task, from |-> from, old |-> NoKey, new |-> NoKey]

Plain(type, from) == Ev(type, <<>>, NoNum, NoNum, 0, from)

\* conversation.py:741-745  the session_reset line
SessionResetEvent(old, new, reason) ==
    [Plain("session_reset", "auto_reset") EXCEPT !.old = old, !.new = new,
                                                 !.text = <<reason>>]

\* conversation.py:584-591  REASONS.get(err_code, ('error', err_str))
TtsErrorReason(errCode) ==
    CASE errCode = "model_terms_required" -> "terms"
      [] errCode = "rate_limit_exceeded" -> "rate_limit"
      [] errCode = "insufficient_quota" -> "no_credits"
      [] errCode = "invalid_api_key" -> "bad_key"
      [] OTHER -> "error"

\* conversation.py:581  _tts_error_event
TtsErrorEvent(errCode, task, from) ==
    Ev("tts_error", <<TtsErrorReason(errCode)>>, NoNum, NoNum, task, from)

\* generate_tts_b64 without its except clause: the provider's error escapes
GenerateTtsB64Raises(provider) ==
    IF provider = "ok" THEN [ret |-> "b64", exc |-> "None"]
    ELSE [ret |-> "None", exc |-> provider]

\* services/tts.py:179  generate_tts_b64: the provider's outcome is "ok" or
\* the code of the error it raises; every exception is caught and None
\* returned.  [ret: "b64" or "None", exc: "None" or the error that escapes]
GenerateTtsB64(provider) ==
    IF provider = "ok" THEN [ret |-> "b64", exc |-> "None"]
    ELSE [ret |-> "None", exc |-> "None"]

\* conversation.py:625  _fire_tts._run: the result dict when the worker ends
RunTts(cleaned, provider) ==
    IF IsSpeakable(cleaned)
    THEN IF GenerateTtsB64(provider).exc # "None"
         THEN [audio |-> "None", error |-> GenerateTtsB64(provider).exc]
         ELSE [audio |-> GenerateTtsB64(provider).ret, error |-> "None"]
    ELSE [audio |-> "None", error |-> "None"]

\* conversation.py:621  _fire_tts: a task whose worker is running.  cleaned is
\* clean_for_tts(raw_text), the first thing the worker computes (627), a
\* function of raw_text alone; provider records what the provider did and
\* read that the generator has looked at the finished result; origin says
\* which call of _fire_tts made the task: a sentence cut from the deltas
\* (663), the rest of the buffer (795) or the whole response (802).
NewTask(raw) ==
    [raw |-> raw, cleaned |-> CleanForTts(raw), done |-> FALSE, audio |-> "None",
     error |-> "None", provider |-> "None", read |-> FALSE, origin |-> "sentence"]

(***************************************************************************)
(* The streaming generator stream_response (conversation.py:571-856).     *)
(***************************************************************************)
\* a flush that pops every finished task, also behind an unfinished one
FlushIdsAnyDone(pend, ts) == SelectSeq(pend, LAMBDA id : ts[id].done)

\* conversation.py:672  while _tts_pending and _tts_pending[0][0].is_set():
\* the tasks the action-time flush pops, in order
RECURSIVE FlushIds(_, _)
FlushIds(pend, ts) ==
    IF pend # <<>> /\ ts[Head(pend)].done
    THEN <<Head(pend)>> \o FlushIds(Tail(pend), ts)
    ELSE <<>>

Range(seq) == {seq[i] : i \in 1..Len(seq)}

\* conversation.py:674-688: what popping task id yields when `sent` audio
\* chunks were yielded before
FlushYield(id, ts, sent) ==
    IF ts[id].error # "None" THEN <<TtsErrorEvent(ts[id].error, id, "flush")>>
    ELSE IF ts[id].audio # "None"
         THEN <<Ev("audio", <<>>, sent, NoNum, id, "flush")>>
         ELSE <<>>

IsAudio(e) == e.type = "audio"

NumAudio(evs) == Cardinality({i \in 1..Len(evs) : IsAudio(evs[i])})

\* conversation.py:672-688: the events of a flush of the task ids
RECURSIVE FlushEvents(_, _, _)
FlushEvents(ids, ts, sent) ==
    IF ids = <<>> THEN <<>>
    ELSE LET y == FlushYield(Head(ids), ts, sent) IN
         y \o FlushEvents(Tail(ids), ts, sent + NumAudio(y))

\* conversation.py:833  'chunk': _chunks_sent + i
DrainChunk(sent, i) == sent + i

\* an error handler without its break
AfterErrorNoBreak == "loop"

\* conversation.py:856, 651: the generator breaks after an error event
AfterError == "done"

\* a handler that does not write the text_done line
TextDoneEventsMissing(response) == <<>>

\* conversation.py:720: the text_done line
TextDoneEvents(response) == <<Ev("text_done", response, NoNum, NoNum, 0, "text_done")>>

ResetRequestLocals ==
    /\ ttsBuf' = <<>>
    /\ tasks' = <<>>
    /\ pending' = <<>>
    /\ chunksSent' = 0
    /\ fullResponse' = None
    /\ drainIdx' = 0
    /\ totalChunks' = 0
    /\ out' = <<>>
    /\ nDeltas' = 0
    /\ nActions' = 0
    /\ started' = FALSE
    /\ gotAction' = FALSE
    /\ outAtBump' = NoNum
    /\ deltaLog' = <<>>

\* conversation.py:556  _session_key = get_voice_session_key(), g its outcome
CaptureKey(g) ==
    /\ sessionKey' = g[1]
    /\ convFile' = g[2]
    /\ convCache' = g[3]
    /\ returned' = Append(returned, Returned("get", g[1]))

\* conversation.py:424-567: a streaming request is accepted, the session key
\* is captured and the gateway thread started
BeginStream(msg, maxChars, maxRequests) ==
    /\ pc \in {"idle", "done"}
    /\ nRequests < maxRequests
    /\ CaptureKey(GetVoiceSessionKey(convFile, convCache))
    /\ userMessage' = msg
    /\ maxResponseChars' = maxChars
    /\ pc' = "loop"
    /\ nRequests' = nRequests + 1
    /\ ResetRequestLocals
    /\ UNCHANGED <<consecutiveEmpty, bpc, bctr, nBumpCalls, serverVars>>

\* a streaming request whose message passed the input guard, up to the
\* generator's first event_queue.get (the log write of 537 left aside)
StartRequest(msg, maxChars, maxRequests) ==
    /\ BeginStream(msg, maxChars, maxRequests)
    /\ UNCHANGED <<doneLog, reply, convPerm, gatewayVars, auxVars>>

requestInputs == <<userMessage, maxResponseChars, sessionKey, nRequests>>

\* conversation.py:648-651: no event for 310 s
GatewayTimeout ==
    /\ pc = "loop"
    /\ out' = Append(out, Plain("error", "timeout"))
    /\ pc' = AfterError
    /\ UNCHANGED <<sessionVars, requestInputs, ttsBuf, tasks, pending, chunksSent,
                   fullResponse, drainIdx, totalChunks, nDeltas, nActions, started,
                   gotAction, outAtBump>>
    /\ UNCHANGED restVars

\* conversation.py:653-655
HandleHandshake ==
    /\ pc = "loop"
    /\ ~started
    /\ started' = TRUE
    /\ UNCHANGED <<sessionVars, requestInputs, pc, ttsBuf, tasks, pending, chunksSent,
                   fullResponse, drainIdx, totalChunks, out, nDeltas, nActions,
                   gotAction, outAtBump>>
    /\ UNCHANGED restVars

\* conversation.py:660-661: <<sentence or None, the buffer afterwards>>
Extracted(buf) == IF HasOpenTag(buf) THEN <<None, buf>> ELSE ExtractSentence(buf)

\* conversation.py:661-663 for ex = <<sentence or None, _tts_buf>>
FireSentence(ex) ==
    /\ ttsBuf' = ex[2]
    /\ IF ex[1] # None
       THEN /\ tasks' = Append(tasks, NewTask(ex[1]))
            /\ pending' = Append(pending, Len(tasks) + 1)
       ELSE UNCHANGED <<tasks, pending>>

\* a generator that forwards a delta line without its text
DeltaLineEmpty(text) == Ev("delta", <<>>, NoNum, NoNum, 0, "delta")

\* conversation.py:664  the delta line
DeltaLine(text) == Ev("delta", text, NoNum, NoNum, 0, "delta")

\* conversation.py:657-665
HandleDelta(text, maxDeltas) ==
    /\ pc = "loop"
    /\ nDeltas < maxDeltas
    /\ FireSentence(Extracted(ttsBuf \o text))
    /\ out' = Append(out, DeltaLine(text))
    /\ deltaLog' = Append(deltaLog, [req |-> nRequests, text |-> text])
    /\ nDeltas' = nDeltas + 1
    /\ started' = TRUE
    /\ UNCHANGED <<sessionVars, requestInputs, pc, chunksSent, fullResponse, drainIdx,
                   totalChunks, nActions, gotAction, outAtBump>>
    /\ UNCHANGED <<doneLog, reply, convPerm, gatewayVars, auxVars>>

\* conversation.py:672-690 when the flush pops the tasks ids and yields evs
Flush(ids, evs) ==
    /\ out' = out \o evs \o <<Plain("action", "action")>>
    /\ chunksSent' = chunksSent + NumAudio(evs)
    /\ pending' = SelectSeq(pending, LAMBDA id : id \notin Range(ids))
    /\ tasks' = [i \in 1..Len(tasks) |->
                   IF i \in Range(ids) THEN [tasks[i] EXCEPT !.read = TRUE]
                   ELSE tasks[i]]

\* conversation.py:667-690
HandleAction(maxActions) ==
    /\ pc = "loop"
    /\ nActions < maxActions
    /\ Flush(FlushIds(pending, tasks),
             FlushEvents(FlushIds(pending, tasks), tasks, chunksSent))
    /\ nActions' = nActions + 1
    /\ started' = TRUE
    /\ gotAction' = TRUE
    /\ UNCHANGED <<sessionVars, requestInputs, pc, ttsBuf, fullResponse,
                   drainIdx, totalChunks, nDeltas, outAtBump>>
    /\ UNCHANGED restVars

\* conversation.py:851-856
HandleError ==
    /\ pc = "loop"
    /\ out' = Append(out, Plain("error", "error"))
    /\ pc' = AfterError
    /\ started' = TRUE
    /\ UNCHANGED <<sessionVars, requestInputs, ttsBuf, tasks, pending, chunksSent,
                   fullResponse, drainIdx, totalChunks, nDeltas, nActions,
                   gotAction, outAtBump>>
    /\ UNCHANGED restVars

\* the task whose worker ended with result r
Finished(task, r, provider) ==
    [task EXCEPT !.done = TRUE, !.audio = r.audio, !.error = r.error,
                 !.provider = IF IsSpeakable(task.cleaned) THEN provider ELSE "None"]

\* conversation.py:625-637: the worker thread of task i ends while the
\* generator still runs (a later end is never looked at); the provider
\* answered or raised
TtsWorker(i, provider) ==
    /\ pc \in {"loop", "drain"}
    /\ i \in 1..Len(tasks)
    /\ ~tasks[i].done
    /\ tasks' = [tasks EXCEPT ![i] = Finished(@, RunTts(@.cleaned, provider), provider)]
    /\ UNCHANGED <<sessionVars, requestInputs, pc, ttsBuf, pending, chunksSent,
                   fullResponse, drainIdx, totalChunks, out, nDeltas, nActions,
                   started, gotAction, outAtBump>>
    /\ UNCHANGED restVars

\* conversation.py:694-697
Truncated(response, maxChars) ==
    IF Truthy(response) /\ maxChars # 0
    THEN TruncateAtSentence(response, maxChars)
    ELSE response

\* the module state and the lines written while the text_done handler runs:
\* mark is the length of the stream when text_done has been written
HandlerState(evs) ==
    [file |-> convFile, cache |-> convCache, ce |-> consecutiveEmpty,
     rets |-> returned, evs |-> evs, mark |-> Len(evs), bumped |-> FALSE]

\* conversation.py:735-745, 751-752: old_key = get_voice_session_key();
\* new_key = bump_voice_session(); g and b are what the two calls return
Bumped(h, g, b) ==
    [h EXCEPT !.file = b[2], !.cache = b[1], !.ce = 0, !.bumped = TRUE,
              !.rets = h.rets \o <<Returned("get", g[1]), Returned("bump", b[1])>>]

BumpIn(h) ==
    Bumped(h, GetVoiceSessionKey(h.file, h.cache),
           BumpVoiceSession(GetVoiceSessionKey(h.file, h.cache)[2]))

\* conversation.py:741-745: the session_reset line of the auto-reset
WithResetLine(h, old) ==
    [h EXCEPT !.evs = Append(h.evs, SessionResetEvent(old, h.cache, "consecutive_empty"))]

\* conversation.py:730-747: auto-reset on consecutive empty responses
AutoReset(h, empty) ==
    IF ~empty THEN [h EXCEPT !.ce = 0]
    ELSE IF h.ce + 1 >= 3
         THEN WithResetLine(BumpIn([h EXCEPT !.ce = h.ce + 1]),
                            GetVoiceSessionKey(h.file, h.cache)[1])
         ELSE [h EXCEPT !.ce = h.ce + 1]

\* conversation.py:749-756: [SESSION_RESET] from the agent
MarkerReset(h, marker) == IF marker THEN BumpIn(h) ELSE h

\* a handler that forgets the text left in the buffer
WithRemainingDropped(tp, remaining) == tp

\* conversation.py:792-796: the remaining buffered text; tp = <<tasks, pending>>
WithRemaining(tp, remaining) ==
    IF remaining # <<>>
    THEN <<Append(tp[1], [NewTask(remaining) EXCEPT !.origin = "remaining"]),
           Append(tp[2], Len(tp[1]) + 1)>>
    ELSE tp

\* conversation.py:798-802: no sentence pending: the whole response
WithWhole(tp, full) ==
    IF tp[2] = <<>> /\ Truthy(full) /\ Speakable(full)
    THEN <<Append(tp[1], [NewTask(full) EXCEPT !.origin = "whole"]),
           Append(tp[2], Len(tp[1]) + 1)>>
    ELSE tp

\* conversation.py:804-819: no_audio, or the drain loop starts
StartDrain(evs, tp) ==
    /\ tasks' = tp[1]
    /\ pending' = tp[2]
    /\ IF tp[2] = <<>>
       THEN /\ out' = Append(evs, Plain("no_audio", "no_pending"))
            /\ pc' = "done"
            /\ UNCHANGED <<drainIdx, totalChunks>>
       ELSE /\ out' = evs
            /\ totalChunks' = chunksSent + Len(tp[2])
            /\ drainIdx' = 0
            /\ pc' = "drain"

\* conversation.py:758-787: the agent returned a file path
FilePassthrough(evs, fileReadable) ==
    /\ out' = Append(evs,
                     IF fileReadable
                     THEN Ev("audio", <<>>, 0, NoNum, 0, "file")
                     ELSE Ev("tts_error", <<"file_read_error">>, NoNum, NoNum, 0, "file"))
    /\ pc' = "done"
    /\ UNCHANGED <<ttsBuf, tasks, pending, drainIdx, totalChunks>>

\* conversation.py:730-819 with the module state h the resets left and the
\* response full after the marker was stripped
Speak(h, full, fileReadable) ==
    /\ convFile' = h.file
    /\ convCache' = h.cache
    /\ consecutiveEmpty' = h.ce
    /\ returned' = h.rets
    /\ fullResponse' = full
    /\ outAtBump' = IF h.bumped /\ outAtBump = NoNum THEN h.mark ELSE outAtBump
    /\ IF IsAgentFilePath(full)
       THEN FilePassthrough(h.evs, fileReadable)
       ELSE /\ StartDrain(h.evs, WithWhole(WithRemaining(<<tasks, pending>>, Strip(ttsBuf)),
                                           full))
            /\ ttsBuf' = IF Strip(ttsBuf) # <<>> THEN <<>> ELSE ttsBuf
    /\ UNCHANGED <<chunksSent, bpc, bctr, nBumpCalls, serverVars>>

\* a handler that forwards the sentinel before the no_audio line
SentinelEventsForwarded(full0) ==
    TextDoneEvents(full0) \o <<Plain("no_audio", "sentinel")>>

\* conversation.py:703  the only line written for a suppressed sentinel
SentinelEvents(full0) == <<Plain("no_audio", "sentinel")>>

\* conversation.py:699-819 for the response full0 after truncation
TextDone(full0, fileReadable) ==
    IF IsSentinel(userMessage, full0)
    THEN \* 700-705: the sentinel is suppressed
         /\ out' = out \o SentinelEvents(full0)
         /\ fullResponse' = full0
         /\ pc' = "done"
         /\ UNCHANGED <<sessionVars, ttsBuf, tasks, pending, chunksSent,
                        drainIdx, totalChunks, outAtBump>>
    ELSE Speak(MarkerReset(AutoReset(HandlerState(out \o TextDoneEvents(full0)),
                                     IsEmptyResponse(full0)),
                           HasResetMarker(full0)),
               IF HasResetMarker(full0) THEN StripResetMarker(full0) ELSE full0,
               fileReadable)

\* the session_reset lines among the lines evs
ResetLines(evs) == SelectSeq(evs, LAMBDA e : e.type = "session_reset")

\* the step that handles a text_done with the response as the gateway put it,
\* in a streaming request or not, recorded with the module state it found
\* and left
LogTextDone(stream, response) ==
    doneLog' = Append(doneLog,
        [req    |-> nRequests',
         stream |-> stream,
         empty  |-> IsEmptyResponse(response),
         sentinel |-> stream /\ IsSentinel(userMessage, Truncated(response, maxResponseChars)),
         ce0    |-> consecutiveEmpty,
         ce     |-> consecutiveEmpty',
         bumped |-> \E i \in (Len(returned) + 1)..Len(returned') :
                        returned'[i].op = "bump",
         ctr0   |-> ReadCounter(convFile, DefaultCounter),
         ctr    |-> ReadCounter(convFile', DefaultCounter),
         resets |-> IF stream THEN ResetLines(SubSeq(out', Len(out) + 1, Len(out')))
                    ELSE <<>>])

\* conversation.py:692-819: the text_done event, up to the drain loop.
\* fileReadable: whether open(file_path, 'rb') succeeds when the response is
\* a /tmp path.
HandleTextDone(response, fileReadable) ==
    /\ pc = "loop"
    /\ started' = TRUE
    /\ TextDone(Truncated(response, maxResponseChars), fileReadable)
    /\ UNCHANGED <<requestInputs, nDeltas, nActions, gotAction, reply, convPerm,
                   gatewayVars, auxVars, deltaLog>>
    /\ LogTextDone(TRUE, response)

\* conversation.py:820-849: the drain loop goes on, ends, or breaks
DrainNext(i, stop) == IF stop \/ i + 1 >= Len(pending) THEN "done" ELSE "drain"

\* conversation.py:822-839 for the finished task id with result res
DrainYield(id, res) ==
    IF res.error # "None"
    THEN /\ out' = Append(out, TtsErrorEvent(res.error, id, "drain"))
         /\ pc' = DrainNext(drainIdx, TRUE)
    ELSE /\ out' = IF res.audio # "None"
                   THEN Append(out, Ev("audio", <<>>, DrainChunk(chunksSent, drainIdx),
                                       totalChunks, id, "drain"))
                   ELSE out
         /\ pc' = DrainNext(drainIdx, FALSE)

\* conversation.py:820-839: done_evt.wait(timeout=30) of pending[i] returns
\* with the event set
DrainTask ==
    /\ pc = "drain"
    /\ tasks[pending[drainIdx + 1]].done
    /\ DrainYield(pending[drainIdx + 1], tasks[pending[drainIdx + 1]])
    /\ drainIdx' = drainIdx + 1
    /\ tasks' = [tasks EXCEPT ![pending[drainIdx + 1]].read = TRUE]
    /\ UNCHANGED <<sessionVars, requestInputs, ttsBuf, pending, chunksSent,
                   fullResponse, totalChunks, nDeltas, nActions, started,
                   gotAction, outAtBump>>
    /\ UNCHANGED restVars

\* a wait with no timeout: it returns only when the event is set
TimedOutNever(task) == FALSE

\* conversation.py:821  done_evt.wait(timeout=30) returns after 30 s with
\* the event of the task not set
TimedOut(task) == ~task.done

\* conversation.py:821-839: the wait times out after 30 s and the result
\* dict is read as it is then: nothing is yielded while it still holds
\* error None and audio None
DrainTimeout ==
    /\ pc = "drain"
    /\ TimedOut(tasks[pending[drainIdx + 1]])
    /\ DrainYield(pending[drainIdx + 1], tasks[pending[drainIdx + 1]])
    /\ drainIdx' = drainIdx + 1
    /\ UNCHANGED <<sessionVars, requestInputs, ttsBuf, tasks, pending, chunksSent,
                   fullResponse, totalChunks, nDeltas, nActions, started,
                   gotAction, outAtBump>>
    /\ UNCHANGED restVars

\* conversation.py:627-634: the worker of task i writes result['audio'] or
\* result['error']; the event is not set yet
WorkerResult(i, provider) ==
    /\ pc \in {"loop", "drain"}
    /\ i \in 1..Len(tasks)
    /\ ~tasks[i].done
    /\ IsSpeakable(tasks[i].cleaned)
    /\ tasks[i].provider = "None"
    /\ tasks' = [tasks EXCEPT ![i] =
                     [Finished(@, RunTts(@.cleaned, provider), provider)
                          EXCEPT !.done = FALSE]]
    /\ UNCHANGED <<sessionVars, requestInputs, pc, ttsBuf, pending, chunksSent,
                   fullResponse, drainIdx, totalChunks, out, nDeltas, nActions,
                   started, gotAction, outAtBump>>
    /\ UNCHANGED restVars

\* conversation.py:635-636  finally: done.set()
WorkerDone(i) ==
    /\ pc \in {"loop", "drain"}
    /\ i \in 1..Len(tasks)
    /\ ~tasks[i].done
    /\ IsSpeakable(tasks[i].cleaned) => tasks[i].provider # "None"
    /\ tasks' = [tasks EXCEPT ![i].done = TRUE]
    /\ UNCHANGED <<sessionVars, requestInputs, pc, ttsBuf, pending, chunksSent,
                   fullResponse, drainIdx, totalChunks, out, nDeltas, nActions,
                   started, gotAction, outAtBump>>
    /\ UNCHANGED restVars

(***************************************************************************)
(* bump_voice_session (conversation.py:151-166) called from the text_done *)
(* handler of another request (735-736, 751-752), statement by statement: *)
(* nothing but the last assignment is under _session_key_lock.            *)
(***************************************************************************)
\* conversation.py:735, 751  old_key = get_voice_session_key()
HandlerGet(t, maxCalls) ==
    /\ bpc[t] = "idle"
    /\ nBumpCalls < maxCalls
    /\ LET g == GetVoiceSessionKey(convFile, convCache) IN
       /\ convFile' = g[2]
       /\ convCache' = g[3]
       /\ returned' = Append(returned, Returned("get", g[1]))
    /\ bpc' = [bpc EXCEPT ![t] = "got"]
    /\ nBumpCalls' = nBumpCalls + 1
    /\ UNCHANGED <<consecutiveEmpty, bctr, serverVars, streamVars>>
    /\ UNCHANGED restVars

\* conversation.py:732-735: the text_done handler of another request takes
\* an empty response: _consecutive_empty_responses += 1, and at 3 or more
\* old_key = get_voice_session_key() with bump_voice_session to follow
HandlerEmpty(t, maxCalls) ==
    /\ bpc[t] = "idle"
    /\ nBumpCalls < maxCalls
    /\ consecutiveEmpty' = consecutiveEmpty + 1
    /\ IF consecutiveEmpty + 1 >= 3
       THEN /\ LET g == GetVoiceSessionKey(convFile, convCache) IN
               /\ convFile' = g[2]
               /\ convCache' = g[3]
               /\ returned' = Append(returned, Returned("get", g[1]))
            /\ bpc' = [bpc EXCEPT ![t] = "got"]
       ELSE UNCHANGED <<convFile, convCache, returned, bpc>>
    /\ nBumpCalls' = nBumpCalls + 1
    /\ UNCHANGED <<bctr, serverVars, streamVars>>
    /\ UNCHANGED restVars

\* conversation.py:154-159: read the file, counter += 1
BumpRead(t) ==
    /\ bpc[t] = "got"
    /\ bctr' = [bctr EXCEPT ![t] = BumpedCounter(ReadCounter(convFile, DefaultCounter))]
    /\ bpc' = [bpc EXCEPT ![t] = "read"]
    /\ UNCHANGED <<convFile, convCache, consecutiveEmpty, nBumpCalls, returned,
                   serverVars, streamVars>>
    /\ UNCHANGED restVars

\* conversation.py:124  open(VOICE_SESSION_FILE, 'w') truncates the file
BumpTruncate(t) ==
    /\ bpc[t] = "read"
    /\ convFile' = FileEmpty
    /\ bpc' = [bpc EXCEPT ![t] = "trunc"]
    /\ UNCHANGED <<convCache, consecutiveEmpty, bctr, nBumpCalls, returned,
                   serverVars, streamVars>>
    /\ UNCHANGED restVars

\* conversation.py:125  f.write(str(counter)) and the close that flushes it
BumpWrite(t) ==
    /\ bpc[t] = "trunc"
    /\ convFile' = FileOf(bctr[t])
    /\ bpc' = [bpc EXCEPT ![t] = "written"]
    /\ outAtBump' = IF pc \in {"loop", "drain"} /\ outAtBump = NoNum
                    THEN Len(out) ELSE outAtBump
    /\ UNCHANGED <<convCache, consecutiveEmpty, bctr, nBumpCalls, returned,
                   serverVars, requestInputs, pc, ttsBuf, tasks, pending, chunksSent,
                   fullResponse, drainIdx, totalChunks, out, nDeltas, nActions,
                   started, gotAction>>
    /\ UNCHANGED restVars

\* conversation.py:161-166: the counter of empty responses, the cache, return
BumpReturn(t) ==
    /\ bpc[t] = "written"
    /\ consecutiveEmpty' = 0
    /\ convCache' = SessionKeyOf(VoicePrefix, bctr[t])
    /\ returned' = Append(returned, Returned("bump", SessionKeyOf(VoicePrefix, bctr[t])))
    /\ bpc' = [bpc EXCEPT ![t] = "idle"]
    /\ UNCHANGED <<convFile, bctr, nBumpCalls, serverVars, streamVars>>
    /\ UNCHANGED restVars

(***************************************************************************)
(* get_voice_session_key and bump_voice_session on a counter file that is *)
(* missing, corrupt, unreadable or unwritable (conversation.py:123-166).  *)
(***************************************************************************)
\* conversation.py:141  open(VOICE_SESSION_FILE, 'r') raises PermissionError,
\* which except (FileNotFoundError, ValueError) does not catch
OpenReadRaises(file, perm) == file.st # "missing" /\ ~perm.r

\* conversation.py:124  open(VOICE_SESSION_FILE, 'w') raises
OpenWriteRaises(perm) == ~perm.w

\* get_voice_session_key raises: no cached key, and the read raises or the
\* default has to be saved (145) and cannot
GetKeyRaises(file, perm, cache) ==
    /\ cache = NoKey
    /\ \/ OpenReadRaises(file, perm)
       \/ file.st # "num" /\ OpenWriteRaises(perm)

\* bump_voice_session raises: at the read (155) or at the save (160)
BumpRaises(file, perm) == OpenReadRaises(file, perm) \/ OpenWriteRaises(perm)

\* the call raised instead of returning a key
Raised(op) == [op |-> op, n |-> NoNum]

\* a request handler calls get_voice_session_key()
CallGetKey(maxCalls) ==
    /\ nBumpCalls < maxCalls
    /\ nBumpCalls' = nBumpCalls + 1
    /\ IF GetKeyRaises(convFile, convPerm, convCache)
       THEN /\ returned' = Append(returned, Raised("get_raised"))
            /\ UNCHANGED <<convFile, convCache>>
       ELSE /\ returned' = Append(returned,
                Returned("get", GetVoiceSessionKey(convFile, convCache)[1]))
            /\ convFile' = GetVoiceSessionKey(convFile, convCache)[2]
            /\ convCache' = GetVoiceSessionKey(convFile, convCache)[3]
    /\ UNCHANGED <<consecutiveEmpty, bpc, bctr, serverVars, streamVars, restVars>>

\* a request handler calls bump_voice_session()
CallBump(maxCalls) ==
    /\ nBumpCalls < maxCalls
    /\ nBumpCalls' = nBumpCalls + 1
    /\ IF BumpRaises(convFile, convPerm)
       THEN /\ returned' = Append(returned, Raised("bump_raised"))
            /\ UNCHANGED <<convFile, convCache, consecutiveEmpty>>
       ELSE /\ returned' = Append(returned,
                Returned("bump", BumpVoiceSession(convFile)[1]))
            /\ convFile' = BumpVoiceSession(convFile)[2]
            /\ convCache' = BumpVoiceSession(convFile)[1]
            /\ consecutiveEmpty' = 0
    /\ UNCHANGED <<bpc, bctr, serverVars, streamVars, restVars>>

\* what can happen to the counter file between two calls
FileFaults == {"deleted", "corrupted", "unreadable", "unwritable"}

\* the environment removes or damages the file, or takes a permission away
FileFault(kind) ==
    /\ kind \in FileFaults
    /\ convFile' = CASE kind = "deleted" -> FileMissing
                     [] kind = "corrupted" -> FileCorrupt
                     [] OTHER -> convFile
    /\ convPerm' = CASE kind = "unreadable" -> [convPerm EXCEPT !.r = FALSE]
                     [] kind = "unwritable" -> [convPerm EXCEPT !.w = FALSE]
                     [] OTHER -> convPerm
    /\ <<convFile', convPerm'>> # <<convFile, convPerm>>
    /\ UNCHANGED <<convCache, consecutiveEmpty, bumpVars, serverVars, streamVars,
                   doneLog, reply, gatewayVars, auxVars, deltaLog>>

(***************************************************************************)
(* POST /api/session/reset (server.py:365-402).                           *)
(***************************************************************************)
ResetModes == {"soft", "hard"}

\* server.py:365  session_reset with a valid mode; the pre-warm thread of
\* mode hard talks to the gateway under the new key and changes no state here
SessionReset(mode, maxResets) ==
    /\ mode \in ResetModes
    /\ nResets < maxResets
    /\ LET old == SrvGetVoiceSessionKey(srvFile)
           new == SrvBumpVoiceSession(old[2]) IN
       /\ srvFile' = new[2]
       /\ resetResponse' = [old |-> old[1], new |-> new[1], mode |-> mode]
    /\ resetAt' = nRequests
    /\ keyAtReset' = sessionKey
    /\ nResets' = nResets + 1
    /\ UNCHANGED <<convFile, convCache, consecutiveEmpty, bumpVars, streamVars>>
    /\ UNCHANGED restVars

(***************************************************************************)
(* The OpenAI-compatible gateway (plugins/openai-compat/gateway.py).      *)
(***************************************************************************)
\* gateway.py:42
MAX_HISTORY == 20

\* gateway_manager.py:103, 111  the default gateway id
DefaultGateway == "openclaw"

\* the gateways a deployment can register
GatewayIds == {"openclaw", "openai-compat"}

SessionKeys == {"A", "B"}

\* a message of the history or of the payload; owner is the session key it
\* was recorded under (bookkeeping, "" for what was never recorded)
Message(role, content, owner) == [role |-> role, content |-> content, owner |-> owner]

\* _get_history when one list is shared by every session key
GetHistoryShared(hist, skey) == hist["A"]

\* gateway.py:46  _get_history
GetHistory(hist, skey) == hist[skey]

\* _trim_history when it keeps the oldest entries
TrimHistoryOldest(history) ==
    IF Len(history) > MAX_HISTORY THEN SubSeq(history, 1, MAX_HISTORY) ELSE history

\* gateway.py:53  _trim_history
TrimHistory(history) ==
    IF Len(history) > MAX_HISTORY
    THEN SubSeq(history, Len(history) - MAX_HISTORY + 1, Len(history))
    ELSE history

\* gateway.py:100-105  the messages array of the payload
BuildMessages(systemPrompt, history, message) ==
    (IF systemPrompt # <<>> THEN <<Message("system", systemPrompt, "")>> ELSE <<>>)
        \o history \o <<Message("user", message, "")>>

\* the lines response.iter_lines() yields, as the loop at 147-174 sees them
SseBlank == [kind |-> "blank", content |-> None, finish |-> FALSE]

\* a line that does not start with "data: "
SseOther == [kind |-> "other", content |-> None, finish |-> FALSE]

\* data: [DONE]
SseDone == [kind |-> "done", content |-> None, finish |-> FALSE]

\* data: followed by something json.loads rejects
SseBadJson == [kind |-> "badjson", content |-> None, finish |-> FALSE]

\* a chunk whose choices list is empty or absent
SseNoChoices == [kind |-> "nochoices", content |-> None, finish |-> FALSE]

\* a chunk with choices[0].delta.content and choices[0].finish_reason
SseChunk(content, finish) == [kind |-> "chunk", content |-> content, finish |-> finish]

\* the connection breaks (or the chunk is malformed) and the loop raises
SseRaise == [kind |-> "raise", content |-> None, finish |-> FALSE]

DeltaEvent(content) == [type |-> "delta", text |-> content]

\* text_done carrying the empty string itself
TextDoneEventRaw(responseText) == [type |-> "text_done", text |-> responseText]

\* gateway.py:184-191  the text_done event: response_text or None
TextDoneEvent(responseText) ==
    [type |-> "text_done", text |-> IF responseText # <<>> THEN responseText ELSE None]

ErrorEvent(why) == [type |-> "error", text |-> <<why>>]

HandshakeEvent == [type |-> "handshake", text |-> <<>>]

\* what requests.post(...) does: a 200 answer, another status, or one of
\* the exceptions of 193-204
PostOutcomes == {"ok", "non200", "timeout", "connection", "exception"}

\* reg and before are the registry and the histories the call found; state
\* is "streaming" while the loop at 147 runs, full is full_response and
\* lines the number of lines read (bookkeeping)
NoCall ==
    [via |-> "none", requested |-> "", routedTo |-> "", key |-> "", http |-> "",
     queue |-> <<>>, sent |-> <<>>, before |-> <<>>, message |-> <<>>,
     reg |-> [g \in GatewayIds |-> "absent"],
     state |-> "none", full |-> <<>>, lines |-> 0]

\* no stream_to_queue call is running
GatewayIdle == gwCall.state \in {"none", "done"}

\* gateway.py:81-145  Gateway.stream_to_queue up to the loop: the history and
\* the payload, requests.post, the error or the handshake event
OpenAiStream(via, requested, skey, message, systemPrompt, post) ==
    /\ gwCall' = [via |-> via, requested |-> requested, routedTo |-> "openai-compat",
                  key |-> skey, http |-> post,
                  queue |-> IF post = "ok" THEN <<HandshakeEvent>>
                            ELSE <<ErrorEvent(post)>>,
                  sent |-> BuildMessages(systemPrompt, GetHistory(sessions, skey),
                                         message),
                  before |-> sessions, message |-> message, reg |-> registry,
                  state |-> IF post = "ok" THEN "streaming" ELSE "done",
                  full |-> <<>>, lines |-> 0]
    /\ sessions' = [sessions EXCEPT ![skey] =
                       TrimHistory(Append(GetHistory(sessions, skey),
                                          Message("user", message, skey)))]
    /\ appended' = [appended EXCEPT ![skey] = Append(@, Message("user", message, skey))]

\* the gateway is called directly
CallGateway(skey, message, systemPrompt, post, maxCalls) ==
    /\ GatewayIdle
    /\ nGwCalls < maxCalls
    /\ nGwCalls' = nGwCalls + 1
    /\ OpenAiStream("direct", "openai-compat", skey, message, systemPrompt, post)
    /\ UNCHANGED <<registry, modelVars>>

\* gateway.py:176-191: the loop is over: the assistant's text is recorded
\* when it is not empty, and text_done put
FinishStream(full, queue) ==
    /\ gwCall' = [gwCall EXCEPT !.state = "done", !.full = full,
                                !.queue = Append(queue, TextDoneEvent(full)),
                                !.lines = gwCall.lines + 1]
    /\ sessions' = [sessions EXCEPT ![gwCall.key] =
                       IF full # <<>>
                       THEN TrimHistory(Append(GetHistory(sessions, gwCall.key),
                                               Message("assistant", full, gwCall.key)))
                       ELSE GetHistory(sessions, gwCall.key)]
    /\ appended' = [appended EXCEPT ![gwCall.key] =
                       IF full # <<>>
                       THEN Append(@, Message("assistant", full, gwCall.key))
                       ELSE @]

\* the loop raised and the exception goes unreported
RaisedEventsSilent == <<>>

\* gateway.py:193-204  the error event of the except clauses
RaisedEvents == <<ErrorEvent("exception")>>

\* gateway.py:147-174  one line of response.iter_lines()
ReadLine(line, maxLines) ==
    /\ gwCall.state = "streaming"
    /\ gwCall.lines < maxLines
    /\ CASE line.kind = "raise" ->
                /\ gwCall' = [gwCall EXCEPT !.state = "done",
                                            !.queue = gwCall.queue \o RaisedEvents,
                                            !.lines = gwCall.lines + 1]
                /\ UNCHANGED <<sessions, appended>>
         [] line.kind = "done" -> FinishStream(gwCall.full, gwCall.queue)
         [] line.kind = "chunk" /\ Truthy(line.content) /\ line.finish ->
                FinishStream(gwCall.full \o line.content,
                             Append(gwCall.queue, DeltaEvent(line.content)))
         [] line.kind = "chunk" /\ Truthy(line.content) /\ ~line.finish ->
                /\ gwCall' = [gwCall EXCEPT
                                 !.full = gwCall.full \o line.content,
                                 !.queue = Append(gwCall.queue, DeltaEvent(line.content)),
                                 !.lines = gwCall.lines + 1]
                /\ UNCHANGED <<sessions, appended>>
         [] line.kind = "chunk" /\ ~Truthy(line.content) /\ line.finish ->
                FinishStream(gwCall.full, gwCall.queue)
         [] OTHER ->
                /\ gwCall' = [gwCall EXCEPT !.lines = gwCall.lines + 1]
                /\ UNCHANGED <<sessions, appended>>
    /\ UNCHANGED <<registry, nGwCalls, modelVars>>

\* gateway.py:147  iter_lines() is exhausted
EndOfStream ==
    /\ gwCall.state = "streaming"
    /\ FinishStream(gwCall.full, gwCall.queue)
    /\ UNCHANGED <<registry, nGwCalls, modelVars>>

(***************************************************************************)
(* GatewayManager.stream_to_queue (services/gateway_manager.py:88-129).   *)
(***************************************************************************)
\* gateway_manager.py:103  gid = gateway_id or 'openclaw'
RequestedId(gatewayId) == IF gatewayId = "" THEN DefaultGateway ELSE gatewayId

\* self._gateways.get(gid) is not None
Registered(reg, gid) == gid \in GatewayIds /\ reg[gid] # "absent"

\* a manager without the fallback to the default gateway
SelectedNoFallback(reg, gid) == IF Registered(reg, gid) THEN gid ELSE ""

\* gateway_manager.py:104-111  the gateway the call settles on, "" for None
Selected(reg, gid) ==
    IF Registered(reg, gid) THEN gid
    ELSE IF Registered(reg, DefaultGateway) THEN DefaultGateway ELSE ""

\* gateway_manager.py:113-119, 121-127: the manager answers with one error event
ManagerError(requested, why) ==
    /\ gwCall' = [NoCall EXCEPT !.via = "manager", !.requested = requested,
                                !.queue = <<ErrorEvent(why)>>, !.before = sessions,
                                !.reg = registry, !.state = "done"]
    /\ UNCHANGED <<sessions, appended>>

\* gateway_manager.py:129  gw.stream_to_queue(...) on the gateway gw: the
\* built-in gateway registered as 'openclaw' is not part of this model, only
\* that it is invoked is recorded
Delegate(requested, gw, skey, message, systemPrompt, post) ==
    IF gw = "openai-compat"
    THEN OpenAiStream("manager", requested, skey, message, systemPrompt, post)
    ELSE /\ gwCall' = [NoCall EXCEPT !.via = "manager", !.requested = requested,
                                     !.routedTo = gw, !.key = skey,
                                     !.before = sessions, !.message = message,
                                     !.reg = registry, !.state = "done"]
         /\ UNCHANGED <<sessions, appended>>

\* gateway_manager.py:88-129 once the gateway gw ("" for None) is selected
Route(requested, gw, skey, message, systemPrompt, post) ==
    IF gw = "" THEN ManagerError(requested, "no_gateway")
    ELSE IF registry[gw] # "configured" THEN ManagerError(requested, "not_configured")
    ELSE Delegate(requested, gw, skey, message, systemPrompt, post)

\* gateway_manager.py:88  GatewayManager.stream_to_queue(..., gateway_id=...)
ManagerStreamToQueue(gatewayId, skey, message, systemPrompt, post, maxCalls) ==
    /\ GatewayIdle
    /\ nGwCalls < maxCalls
    /\ nGwCalls' = nGwCalls + 1
    /\ Route(RequestedId(gatewayId), Selected(registry, RequestedId(gatewayId)),
             skey, message, systemPrompt, post)
    /\ UNCHANGED <<registry, modelVars>>

\* gateway_manager.py:65  register(gateway): configured is what the
\* gateway's is_configured() answers
Register(gid, configured) ==
    /\ gid \in GatewayIds
    /\ registry' = [registry EXCEPT ![gid] =
                        IF configured THEN "configured" ELSE "unconfigured"]
    /\ registry' # registry
    /\ UNCHANGED <<sessions, gwCall, appended, nGwCalls, modelVars>>

(***************************************************************************)
(* Plugin discovery (gateway_manager.py:195-286).  A directory of         *)
(* plugins/ is described by how far the loop body gets with it, and by    *)
(* the gateway_id of the instance its class makes.                        *)
(***************************************************************************)
\* gateway_manager.py:217-220  no directory, or no plugin.json in it
\* 222-226  plugin.json is not JSON; 228  provides is not "gateway"
\* 236-242  a variable of requires_env is not set; 245-248  no gateway.py
\* 250-259  the import raises; 262-268  no such class
\* 269-273  the class is not a subclass of GatewayBase
\* 276-282  cls() or register raises
SkippedKinds ==
    {"not_dir", "no_manifest", "bad_json", "other_provides", "missing_env",
     "no_gateway_py", "import_raises", "no_class", "not_subclass", "init_raises"}

\* gateway_manager.py:228  plugin.json holds JSON that is not an object:
\* manifest.get raises AttributeError outside every try
\* 235-236  requires_env is no list of strings: the comprehension or
\* os.getenv raises TypeError outside every try
RaisingKinds == {"manifest_not_object", "requires_env_not_list"}

\* gateway_manager.py:277-279  the instance is made and registered; its
\* is_configured() answers True or False
LoadedKinds == {"configured", "unconfigured"}

PluginKinds == SkippedKinds \cup RaisingKinds \cup LoadedKinds

PluginDir(kind, gid) == [kind |-> kind, gid |-> gid]

NoLoader == [state |-> "none", dirs |-> <<>>, i |-> 0, loaded |-> <<>>]

\* gateway_manager.py:297  gateway_manager._load_plugins() over the sorted
\* directories dirs
LoadPluginsCall(dirs) ==
    /\ loader.state = "none"
    /\ loader' = [state |-> IF dirs = <<>> THEN "returned" ELSE "scanning",
                  dirs |-> dirs, i |-> 0, loaded |-> <<>>]
    /\ UNCHANGED <<coreVars, sinkVars, sideVars, musicVars, ttsCall, normCall>>

\* gateway_manager.py:216-282  the loop body for the next directory: the
\* plugin is registered, skipped, or an exception leaves _load_plugins
LoadPluginStep ==
    /\ loader.state = "scanning"
    /\ registry' = IF loader.dirs[loader.i + 1].kind \in LoadedKinds
                   THEN [registry EXCEPT ![loader.dirs[loader.i + 1].gid] =
                                             loader.dirs[loader.i + 1].kind]
                   ELSE registry
    /\ loader' = [loader EXCEPT
                      !.i = loader.i + 1,
                      !.loaded = IF loader.dirs[loader.i + 1].kind \in LoadedKinds
                                 THEN Append(@, loader.i + 1) ELSE @,
                      !.state = IF loader.dirs[loader.i + 1].kind \in RaisingKinds
                                THEN "raised"
                                ELSE IF loader.i + 1 = Len(loader.dirs)
                                THEN "returned" ELSE "scanning"]
    /\ UNCHANGED <<sessions, gwCall, appended, nGwCalls>>
    /\ UNCHANGED <<sessionVars, streamVars, doneLog, reply, convPerm, deltaLog>>
    /\ UNCHANGED <<sinkVars, sideVars, musicVars, ttsCall, normCall>>

(***************************************************************************)
(* The non-streaming answer and the fallback chain                        *)
(* (conversation.py:864-953).                                              *)
(***************************************************************************)
\* conversation.py:899  _server.get_zai_direct_response(...): server.py
\* defines no such function, the AttributeError is caught at 900 and
\* ai_response set to None
GetZaiDirectResponse == None

\* conversation.py:906  the canned apology (abridged)
Apology == <<"H", "m", "m", ".">>

\* conversation.py:904-906  last resort
LastResort(ai) == IF Truthy(ai) THEN ai ELSE Apology

\* conversation.py:888-953 for the text ai_response the gateway left:
\* metrics['profile'] is 'gateway' from 428 on, so every fallback counts
\* (the field gateway keeps that text, for the record)
Answer(ai, provider) ==
    IF Truthy(ai)
    THEN [response |-> ai, fallbackUsed |-> 0, profile |-> "gateway", gateway |-> ai,
          audio |-> RunTts(CleanForTts(ai), provider).audio # "None"]
    ELSE [response |-> LastResort(GetZaiDirectResponse), fallbackUsed |-> 1,
          profile |-> "flash-direct", gateway |-> ai,
          audio |-> RunTts(CleanForTts(LastResort(GetZaiDirectResponse)),
                           provider).audio # "None"]

\* what the gateway thread has put on the queue when join(timeout=310)
\* returns: a text_done with its response, or none (error, timeout)
NoTextDone == [done |-> FALSE, response |-> None]

GotTextDone(r) == [done |-> TRUE, response |-> r]

\* conversation.py:424-953 without ?stream=1, and with it when no gateway is
\* configured (553): the request is answered with one JSON body.
\* configured: gateway_manager.is_configured(); gw: what the queue holds
NonStreamRequest(msg, configured, gw, provider, maxRequests) ==
    /\ pc \in {"idle", "done"}
    /\ nRequests < maxRequests
    /\ IF configured
       THEN CaptureKey(GetVoiceSessionKey(convFile, convCache))
       ELSE UNCHANGED <<sessionKey, convFile, convCache, returned>>
    /\ UNCHANGED <<consecutiveEmpty, out>>
    /\ reply' = Answer(IF configured /\ gw.done THEN gw.response ELSE None, provider)
    /\ userMessage' = msg
    /\ nRequests' = nRequests + 1
    /\ UNCHANGED <<maxResponseChars, pc, ttsBuf, tasks, pending, chunksSent,
                   fullResponse, drainIdx, totalChunks, nDeltas, nActions, started,
                   gotAction, outAtBump, bpc, bctr, nBumpCalls, serverVars, convPerm,
                   gatewayVars, auxVars, deltaLog>>
    /\ IF configured /\ gw.done
       THEN LogTextDone(FALSE, gw.response)
       ELSE UNCHANGED doneLog

(***************************************************************************)
(* The durable sink (conversation.py:54-97, 188-251).                     *)
(***************************************************************************)
NoItem == [id |-> 0, kind |-> "none", path |-> "none"]

\* a queued write (db_path_str, sql, params): kind names the table, path
\* says whether sqlite3.connect(db_path_str) can succeed
Item(id, kind, path) == [id |-> id, kind |-> kind, path |-> path]

ItemKinds == {"conversation", "metrics"}

DbPaths == {"good", "bad"}

\* conversation.py:193, 224  _db_write_queue.put(...)
Enqueue(kind, path) ==
    /\ dbQueue' = Append(dbQueue, Item(nEnqueued + 1, kind, path))
    /\ dbUnfinished' = dbUnfinished + 1
    /\ nEnqueued' = nEnqueued + 1

\* conversation.py:188, 208  log_conversation / log_metrics called by a
\* producer: the put, nothing else that can fail (_notify_brain swallows)
LogWrite(kind, path, maxItems) ==
    /\ nEnqueued < maxItems
    /\ Enqueue(kind, path)
    /\ UNCHANGED <<httpStatus, posted, canvasContext, dbWriter, dbLog, dbFlush>>
    /\ UNCHANGED <<coreVars, sideVars, musicVars, callVars>>

\* conversation.py:67-68  get(timeout=5) returns an item
WriterTake ==
    /\ dbWriter = NoItem
    /\ dbQueue # <<>>
    /\ dbWriter' = Head(dbQueue)
    /\ dbQueue' = Tail(dbQueue)
    /\ UNCHANGED <<httpStatus, posted, canvasContext, dbUnfinished, dbLog, dbFlush,
                   nEnqueued>>
    /\ UNCHANGED <<coreVars, sideVars, musicVars, callVars>>

\* a writer that calls task_done after an empty poll as well
EmptyPollTaskDoneAlways(unfinished) == unfinished - 1

\* conversation.py:69-70  queue.Empty: continue, outside the try/finally of
\* 71-84: unfinished_tasks after an empty poll, no task_done is called
EmptyPollTaskDone(unfinished) == unfinished

\* conversation.py:67-70  get(timeout=5) times out on the empty queue
WriterPollEmpty(maxPolls) ==
    /\ dbWriter = NoItem
    /\ dbQueue = <<>>
    /\ Cardinality({k \in 1..Len(dbLog) : dbLog[k].outcome = "empty"}) < maxPolls
    /\ dbLog' = Append(dbLog, [id |-> 0, outcome |-> "empty", pos |-> 0])
    /\ dbUnfinished' = EmptyPollTaskDone(dbUnfinished)
    /\ UNCHANGED <<httpStatus, posted, canvasContext, dbQueue, dbWriter, dbFlush,
                   nEnqueued>>
    /\ UNCHANGED <<coreVars, sideVars, musicVars, callVars>>

\* a writer that puts the failed item back on the queue
AfterFailureRequeue(queue, item) == Append(queue, item)

\* conversation.py:81-82  except Exception: the error is logged, the item
\* is gone
AfterFailure(queue, item) == queue

\* conversation.py:71-80  connect (unless cached), execute, commit: what
\* becomes of the item when the statement itself is or is not accepted
WriteOutcome(item, sqlOk) ==
    IF item.path = "bad" \/ ~sqlOk THEN "dropped" ELSE "committed"

\* conversation.py:71-84  the writer processes the item it holds and calls
\* task_done in the finally clause
WriterWrite(sqlOk) ==
    /\ dbWriter # NoItem
    /\ dbLog' = Append(dbLog, [id |-> dbWriter.id,
                               outcome |-> WriteOutcome(dbWriter, sqlOk),
                               pos |-> nEnqueued])
    /\ dbQueue' = IF WriteOutcome(dbWriter, sqlOk) = "dropped"
                  THEN AfterFailure(dbQueue, dbWriter) ELSE dbQueue
    /\ dbUnfinished' = dbUnfinished - 1
    /\ dbWriter' = NoItem
    /\ UNCHANGED <<httpStatus, posted, canvasContext, dbFlush, nEnqueued>>
    /\ UNCHANGED <<coreVars, sideVars, musicVars, callVars>>

NoFlush == [state |-> "idle", upto |-> 0]

\* conversation.py:95-97  _flush_db_writes is called: _db_write_queue.join()
\* starts to wait; upto is the number of items put so far (bookkeeping)
FlushCall ==
    /\ dbFlush.state # "waiting"
    /\ dbFlush' = [state |-> "waiting", upto |-> nEnqueued]
    /\ UNCHANGED <<httpStatus, posted, canvasContext, dbQueue, dbUnfinished, dbWriter,
                   dbLog, nEnqueued>>
    /\ UNCHANGED <<coreVars, sideVars, musicVars, callVars>>

\* Queue.join() returns: unfinished_tasks is 0
FlushReturn ==
    /\ dbFlush.state = "waiting"
    /\ dbUnfinished = 0
    /\ dbFlush' = [dbFlush EXCEPT !.state = "returned"]
    /\ UNCHANGED <<httpStatus, posted, canvasContext, dbQueue, dbUnfinished, dbWriter,
                   dbLog, nEnqueued>>
    /\ UNCHANGED <<coreVars, sideVars, musicVars, callVars>>

(***************************************************************************)
(* The input guard of POST /api/conversation (conversation.py:436-477).   *)
(***************************************************************************)
\* conversation.py:461
MaxMessageLen == 4000

NoPage == <<>>

\* a request body: data['message'] is lead spaces, then chars characters
\* that are not spaces (a system trigger starts with '__'), then trail
\* spaces; page is ui_context['canvasDisplayed'] (NoPage: absent)
Body(lead, chars, trail, trigger, page) ==
    [lead |-> lead, chars |-> chars, trail |-> trail, trigger |-> trigger,
     page |-> page]

\* len(data['message'])
RawLen(body) == body.lead + body.chars + body.trail

\* the characters of the message between its leading and trailing spaces
Inner(body) ==
    IF body.trigger /\ body.chars >= 2
    THEN <<"_", "_">> \o Rep("a", body.chars - 2)
    ELSE Rep("a", body.chars)

\* conversation.py:443  user_message = data.get('message', '').strip()
UserMessageOf(body) == Inner(body)

NoPost == [n |-> 0, body |-> Body(0, 0, 0, FALSE, NoPage)]

\* a guard without the length check
RejectsEmptyOnly(userMsg) == userMsg = <<>>

\* conversation.py:457-462  the two tests that answer 400
Rejects(userMsg) == userMsg = <<>> \/ Len(userMsg) > MaxMessageLen

\* conversation.py:424-567 for a streaming request with a configured
\* gateway: the guard, the canvas context, the user's log line, the session
\* key and the gateway thread
PostConversation(body, maxPosts, maxRequests) ==
    /\ posted.n < maxPosts
    /\ posted' = [n |-> posted.n + 1, body |-> body]
    /\ IF Rejects(UserMessageOf(body))
       THEN /\ httpStatus' = 400
            /\ UNCHANGED <<canvasContext, dbQueue, dbUnfinished, nEnqueued>>
            /\ UNCHANGED <<sessionVars, streamVars, deltaLog>>
       ELSE /\ httpStatus' = 200
            /\ canvasContext' = IF body.page # NoPage THEN body.page ELSE canvasContext
            /\ Enqueue("conversation", "good")
            /\ BeginStream(UserMessageOf(body), 0, maxRequests)
    /\ UNCHANGED <<dbWriter, dbLog, dbFlush>>
    /\ UNCHANGED <<doneLog, reply, convPerm, gatewayVars>>
    /\ UNCHANGED <<sideVars, musicVars, callVars>>

(***************************************************************************)
(* The canvas command side channel (routes/elevenlabs_hybrid.py:72-114,   *)
(* 249-267).                                                               *)
(***************************************************************************)
NoThread == "none"

\* response handlers that queue commands, and clients that poll
Handlers == {"h1", "h2"}

Pollers == {"p1", "p2"}

SideThreads == Handlers \cup Pollers

\* a lock that never makes anyone wait
LockAlwaysFree == TRUE

\* elevenlabs_hybrid.py:112, 263  with _canvas_lock: the lock can be taken
LockFree == canvasLock = NoThread

sideRest == <<coreVars, sinkVars, musicVars, callVars>>

\* the commands extracted so far: those appended and those a handler is
\* about to append (bookkeeping)
Numbered ==
    Len(queuedLog) + Len(sideLocal["h1"]) + Len(sideLocal["h2"])

\* elevenlabs_hybrid.py:108-112  _queue_canvas_commands(commands) with n
\* commands (numbered on from the last one, bookkeeping) takes the lock
QueueCommands(t, n, maxCommands) ==
    /\ t \in Handlers
    /\ sidePc[t] = "idle"
    /\ n > 0
    /\ Numbered + n <= maxCommands
    /\ LockFree
    /\ canvasLock' = t
    /\ sidePc' = [sidePc EXCEPT ![t] = "append"]
    /\ sideLocal' = [sideLocal EXCEPT ![t] = [i \in 1..n |-> Numbered + i]]
    /\ UNCHANGED <<canvasPending, queuedLog, delivered, sideRest>>

\* elevenlabs_hybrid.py:113-114  one turn of the for loop; the lock is
\* released after the last one
AppendCommand(t) ==
    /\ sidePc[t] = "append"
    /\ canvasPending' = Append(canvasPending, Head(sideLocal[t]))
    /\ queuedLog' = Append(queuedLog, Head(sideLocal[t]))
    /\ sideLocal' = [sideLocal EXCEPT ![t] = Tail(@)]
    /\ IF Len(sideLocal[t]) = 1
       THEN /\ sidePc' = [sidePc EXCEPT ![t] = "idle"]
            /\ canvasLock' = NoThread
       ELSE UNCHANGED <<sidePc, canvasLock>>
    /\ UNCHANGED <<delivered, sideRest>>

\* elevenlabs_hybrid.py:263  GET /api/canvas-pending takes the lock
PollAcquire(t, maxPolls) ==
    /\ t \in Pollers
    /\ sidePc[t] = "idle"
    /\ Len(delivered) + Cardinality({u \in Pollers : sidePc[u] # "idle"}) < maxPolls
    /\ LockFree
    /\ canvasLock' = t
    /\ sidePc' = [sidePc EXCEPT ![t] = "copy"]
    /\ UNCHANGED <<canvasPending, sideLocal, queuedLog, delivered, sideRest>>

\* elevenlabs_hybrid.py:264  commands = list(_canvas_pending)
PollCopy(t) ==
    /\ sidePc[t] = "copy"
    /\ sideLocal' = [sideLocal EXCEPT ![t] = canvasPending]
    /\ sidePc' = [sidePc EXCEPT ![t] = "clear"]
    /\ UNCHANGED <<canvasPending, canvasLock, queuedLog, delivered, sideRest>>

\* elevenlabs_hybrid.py:265  _canvas_pending.clear(), and the lock released
PollClear(t) ==
    /\ sidePc[t] = "clear"
    /\ canvasPending' = <<>>
    /\ canvasLock' = NoThread
    /\ sidePc' = [sidePc EXCEPT ![t] = "return"]
    /\ UNCHANGED <<sideLocal, queuedLog, delivered, sideRest>>

\* elevenlabs_hybrid.py:267  return jsonify({'commands': commands})
PollReturn(t) ==
    /\ sidePc[t] = "return"
    /\ delivered' = Append(delivered, sideLocal[t])
    /\ sideLocal' = [sideLocal EXCEPT ![t] = <<>>]
    /\ sidePc' = [sidePc EXCEPT ![t] = "idle"]
    /\ UNCHANGED <<canvasPending, canvasLock, queuedLog, sideRest>>

(***************************************************************************)
(* The track reservation (routes/music.py:63-96, 606-616).                *)
(***************************************************************************)
NoReservation == [track |-> "None", at |-> 0, id |-> 0]

NoConfirm == [state |-> "none", rid |-> 0, result |-> "none", held |-> NoReservation,
              at |-> 0]

\* music.py:64, 76  the reservation's lifetime in seconds
ReservationTtl == 30

Tracks == {"a", "b"}

\* the rest of the model next to the reservation
musicRest == <<coreVars, sinkVars, sideVars, callVars>>

\* time.time() moves on between two calls
Tick(dt, maxClock) ==
    /\ clock + dt <= maxClock
    /\ clock' = clock + dt
    /\ UNCHANGED <<musicState, confirm, nReservations, musicRest>>

\* music.py:63-71  reserve_track: track, time and a new id (uuid4, here the
\* number of the reservation) replace what was held
ReserveTrack(track, maxReservations) ==
    /\ nReservations < maxReservations
    /\ nReservations' = nReservations + 1
    /\ musicState' = [track |-> track, at |-> clock, id |-> nReservations + 1]
    /\ UNCHANGED <<clock, confirm, musicRest>>

\* music.py:79  time.time() - reserved_at > 30
Expired(res, now) == now - res.at > ReservationTtl

\* music.py:74-86  get_reserved_track (action=sync): a reservation older
\* than 30 s is cleared when somebody asks for it
GetReservedTrack ==
    /\ musicState.track # "None"
    /\ musicState' = IF Expired(musicState, clock) THEN NoReservation ELSE musicState
    /\ UNCHANGED <<clock, confirm, nReservations, musicRest>>

\* music.py:89-96  clear_reservation
ClearReservation ==
    /\ musicState' = NoReservation
    /\ UNCHANGED <<clock, nReservations>>

\* music.py:770-772  deleting the reserved track's file clears the reservation
DeleteReservedTrack ==
    /\ musicState.track # "None"
    /\ ClearReservation
    /\ UNCHANGED <<confirm, musicRest>>

\* music.py:607-609  action=confirm reads reservation_id (without the lock)
\* and compares it with the request's id: an empty id (0) never matches;
\* the age of the reservation is not looked at
ConfirmRead(rid) ==
    /\ confirm.state # "matched"
    /\ confirm' = IF rid # 0 /\ rid = musicState.id
                  THEN [state |-> "matched", rid |-> rid, result |-> "none",
                        held |-> musicState, at |-> clock]
                  ELSE [state |-> "done", rid |-> rid, result |-> "error",
                        held |-> musicState, at |-> clock]
    /\ UNCHANGED <<musicState, clock, nReservations, musicRest>>

\* music.py:610-614  the matching confirm clears whatever is reserved by now
\* and answers "confirmed"
ConfirmClear ==
    /\ confirm.state = "matched"
    /\ ClearReservation
    /\ confirm' = [confirm EXCEPT !.state = "done", !.result = "confirmed"]
    /\ UNCHANGED musicRest

(***************************************************************************)
(* generate_tts_chunked (services/tts.py:118-174).                        *)
(***************************************************************************)
NoTtsCall == [state |-> "none"]

\* what provider.generate_speech does for one chunk: a RIFF/WAVE file, an
\* exception, or bytes that are no RIFF file (another container)
ChunkOutcomes == {"wav", "raise", "other"}

\* the PCM data of the WAV file the provider returns for chunk i: one
\* sample that names the chunk
PcmOf(i) == <<i>>

RECURSIVE Gather(_, _)
\* tts.py:133-162  all_audio_data after the chunks from i on: the data of
\* every chunk that came back as a RIFF file; a chunk that raised (161-162)
\* or is no RIFF file adds nothing
Gather(outcomes, i) ==
    IF i > Len(outcomes) THEN <<>>
    ELSE (IF outcomes[i] = "wav" THEN PcmOf(i) ELSE <<>>) \o Gather(outcomes, i + 1)

\* tts.py:164-166  provider.generate_speech(text[:max_chars]): the audio of
\* the truncated text, or the provider's exception
TruncatedSpeech(fallback) ==
    IF fallback = "wav" THEN [kind |-> "truncated", pcm |-> <<0>>]
    ELSE [kind |-> "error", pcm |-> <<>>]

\* tts.py:118-174  generate_tts_chunked for a text that is split into
\* Len(outcomes) chunks; the result is a rebuilt WAV file with its PCM
\* data, the first chunk's bytes as they are (149), the audio of the
\* truncated text, or an exception
GenerateTtsChunked(outcomes, fallback) ==
    IF outcomes[1] = "other" THEN [kind |-> "raw", pcm |-> PcmOf(1)]
    ELSE IF Gather(outcomes, 1) = <<>> \/ outcomes[1] # "wav"
         THEN TruncatedSpeech(fallback)
         ELSE [kind |-> "wav", pcm |-> Gather(outcomes, 1)]

\* a call whose text needs the chunks whose synthesis ends as outcomes say
TtsCallOf(outcomes, fallback) ==
    [state |-> "called", outcomes |-> outcomes, fallback |-> fallback,
     result |-> [kind |-> "none", pcm |-> <<>>]]

\* generate_tts_chunked returns (or raises)
ChunkedReturn ==
    /\ ttsCall.state = "called"
    /\ ttsCall' = [ttsCall EXCEPT !.state = "returned",
                                  !.result = GenerateTtsChunked(ttsCall.outcomes,
                                                                ttsCall.fallback)]
    /\ UNCHANGED <<coreVars, sinkVars, sideVars, musicVars, normCall, loader>>

\* tts.py:103  re.split(r'(?<=[.!?])\s+', text): the text is cut at every
\* run of white space that follows a terminator, the run left out
RECURSIVE SplitSentences(_)
SplitSentences(text) ==
    IF {i \in 1..(Len(text) - 1) : text[i] \in {".", "!", "?"} /\ text[i + 1] = " "} = {}
    THEN <<text>>
    ELSE <<Slice(text, 1, FirstOf({i \in 1..(Len(text) - 1) :
                                     text[i] \in {".", "!", "?"} /\ text[i + 1] = " "}))>>
         \o SplitSentences(LStrip(Slice(text,
                FirstOf({i \in 1..(Len(text) - 1) :
                           text[i] \in {".", "!", "?"} /\ text[i + 1] = " "}) + 1,
                Len(text))))

\* tts.py:107-114  the packing loop over the sentences left, with
\* current_chunk and the chunks made so far
RECURSIVE PackChunks(_, _, _, _)
PackChunks(sentences, current, chunks, maxChars) ==
    IF sentences = <<>>
    THEN IF current # <<>> THEN Append(chunks, Strip(current)) ELSE chunks
    ELSE IF Len(current) + Len(Head(sentences)) + 1 > maxChars /\ current # <<>>
         THEN PackChunks(Tail(sentences), Head(sentences),
                         Append(chunks, Strip(current)), maxChars)
         ELSE PackChunks(Tail(sentences),
                         Strip(current \o <<" ">> \o Head(sentences)), chunks, maxChars)

\* tts.py:98-126  the texts generate_tts_chunked passes to
\* provider.generate_speech, in order: the whole text when it is short,
\* else every chunk that is not blank
ProviderTexts(text, maxChars) ==
    IF Len(text) <= maxChars THEN <<text>>
    ELSE SelectSeq(PackChunks(SplitSentences(text), <<>>, <<>>, maxChars),
                   LAMBDA chunk : Strip(chunk) # <<>>)

\* a call of generate_tts_chunked(provider, text, voice, max_chars)
SplitCallOf(text, maxChars) ==
    [state |-> "unsplit", text |-> text, maxChars |-> maxChars, texts |-> <<>>]

\* the chunks are made and passed to the provider
ChunkedSplit ==
    /\ ttsCall.state = "unsplit"
    /\ ttsCall' = [ttsCall EXCEPT !.state = "split",
                                  !.texts = ProviderTexts(ttsCall.text, ttsCall.maxChars)]
    /\ UNCHANGED <<coreVars, sinkVars, sideVars, musicVars, normCall, loader>>

(***************************************************************************)
(* SpeechNormalizer.normalize (services/speech_normalizer.py:101-157).    *)
(***************************************************************************)
NoNormCall == [state |-> "none"]

\* a line break
Newline == "\n"

\* the length of the run of line breaks that starts s
RECURSIVE BreakRun(_)
BreakRun(s) == IF s = <<>> \/ s[1] # Newline THEN 0 ELSE 1 + BreakRun(Tail(s))

\* speech_normalizer.py:144  re.sub(r"\n{2,}", " ", text)
RECURSIVE SubBreakRuns(_)
SubBreakRuns(s) ==
    IF s = <<>> THEN <<>>
    ELSE IF BreakRun(s) >= 2
         THEN <<" ">> \o SubBreakRuns(Slice(s, BreakRun(s) + 1, Len(s)))
         ELSE <<s[1]>> \o SubBreakRuns(Tail(s))

\* speech_normalizer.py:145  re.sub(r"\n", " ", text)
SubBreaks(s) == [i \in 1..Len(s) |-> IF s[i] = Newline THEN " " ELSE s[i]]

\* speech_normalizer.py:142-145  step 5, the three substitutions in the
\* order of the code: runs of blanks first, line breaks after
CollapseWhitespace(text) == SubBreaks(SubBreakRuns(Collapse(text, " ")))

\* str.rfind(". ") as Python counts (0-based, -1 when absent)
RFindDotSpace(s) ==
    LastOf({k \in 1..(Len(s) - 1) : s[k] = "." /\ s[k + 1] = " "}) - 1

\* speech_normalizer.py:153  the test that picks the sentence boundary
CutAccepted(cut, maxLen) == cut > maxLen \div 2

\* speech_normalizer.py:149-156  step 7: cut after the last ". " of the
\* first maxLen characters when that keeps more than half of them, else
\* the first maxLen characters without trailing blanks, plus "..."
EnforceMaxLength(text, maxLen) ==
    IF Len(text) <= maxLen THEN text
    ELSE IF CutAccepted(RFindDotSpace(Slice(text, 1, maxLen)), maxLen)
         THEN Slice(text, 1, RFindDotSpace(Slice(text, 1, maxLen)) + 1)
         ELSE RStrip(Slice(text, 1, maxLen)) \o <<".", ".", ".">>

\* speech_normalizer.py:101-157  normalize for a text of letters, dots,
\* blanks and line breaks under a profile whose max_length is maxLen and
\* which has no abbreviations: steps 1-4 (markdown, URLs, emoji,
\* abbreviations) find nothing in such a text
Normalize(text, maxLen) ==
    IF text = <<>> THEN text
    ELSE EnforceMaxLength(Strip(CollapseWhitespace(text)), maxLen)

NormCallOf(text, maxLen) ==
    [state |-> "called", text |-> text, maxLen |-> maxLen,
     once |-> <<>>, twice |-> <<>>]

\* normalize(x) returns
NormalizeReturn ==
    /\ normCall.state = "called"
    /\ normCall' = [normCall EXCEPT !.state = "once",
                                   !.once = Normalize(normCall.text, normCall.maxLen)]
    /\ UNCHANGED <<coreVars, sinkVars, sideVars, musicVars, ttsCall, loader>>

\* the result is normalized again under the same profile
NormalizeAgain ==
    /\ normCall.state = "once"
    /\ normCall' = [normCall EXCEPT !.state = "twice",
                                   !.twice = Normalize(normCall.once, normCall.maxLen)]
    /\ UNCHANGED <<coreVars, sinkVars, sideVars, musicVars, ttsCall, loader>>

(***************************************************************************)
(* Inputs of the streaming specification.                                  *)
(***************************************************************************)
\* a sentence long enough to be extracted as soon as it arrives (41 chars)
LongSentence == Rep("a", MinSentence) \o <<".">>

ShortSentence == <<"a", ".">>

DeltaTexts == {LongSentence, ShortSentence}

Responses ==
    { None,
      <<" ">>,
      <<"N", "O">>,
      ShortSentence,
      SessionResetMarker \o <<" ">> \o ShortSentence,
      TmpPrefix \o <<"a">> }

\* whether open(file_path, 'rb') succeeds: read only for a /tmp path
FileOutcomes(response) == IF IsAgentFilePath(response) THEN BOOLEAN ELSE {TRUE}

UserMessages == {<<"a">>, <<"_", "_", "a">>}

\* max_response_chars: absent
MaxCharsInputs == {0}

\* the outcomes of provider.generate_speech: audio, or a Groq error
ProviderOutcomes == {"ok", "rate_limit_exceeded"}

\* bounds of the run
MaxRequests == 1
MaxDeltas == 2
MaxActions == 1

\* a request fires at most one task per delta and one at text_done
TaskIds == 1..(MaxDeltas + 1)

vars == <<sessionVars, streamVars, restVars>>

BumpThreads == {1, 2}

InitState(conv, srv) ==
    /\ bpc = [t \in BumpThreads |-> "idle"]
    /\ bctr = [t \in BumpThreads |-> 0]
    /\ nBumpCalls = 0
    /\ returned = <<>>
    /\ srvFile = srv
    /\ resetResponse = NoReset
    /\ resetAt = 0
    /\ keyAtReset = NoKey
    /\ nResets = 0
    /\ convFile = conv
    /\ convCache = NoKey
    /\ consecutiveEmpty = 0
    /\ pc = "idle"
    /\ userMessage = <<>>
    /\ maxResponseChars = 0
    /\ sessionKey = NoKey
    /\ ttsBuf = <<>>
    /\ tasks = <<>>
    /\ pending = <<>>
    /\ chunksSent = 0
    /\ fullResponse = None
    /\ drainIdx = 0
    /\ totalChunks = 0
    /\ out = <<>>
    /\ nRequests = 0
    /\ nDeltas = 0
    /\ nActions = 0
    /\ started = FALSE
    /\ gotAction = FALSE
    /\ outAtBump = NoNum
    /\ doneLog = <<>>
    /\ reply = NoReply
    /\ convPerm = ReadWrite
    /\ sessions = [k \in SessionKeys |-> <<>>]
    /\ appended = [k \in SessionKeys |-> <<>>]
    /\ gwCall = NoCall
    /\ registry = [g \in GatewayIds |-> "absent"]
    /\ nGwCalls = 0
    /\ loader = NoLoader
    /\ httpStatus = 0
    /\ posted = NoPost
    /\ canvasContext = NoPage
    /\ dbQueue = <<>>
    /\ dbUnfinished = 0
    /\ dbWriter = NoItem
    /\ dbLog = <<>>
    /\ dbFlush = NoFlush
    /\ nEnqueued = 0
    /\ deltaLog = <<>>
    /\ canvasPending = <<>>
    /\ canvasLock = NoThread
    /\ sidePc = [t \in SideThreads |-> "idle"]
    /\ sideLocal = [t \in SideThreads |-> <<>>]
    /\ queuedLog = <<>>
    /\ delivered = <<>>
    /\ musicState = NoReservation
    /\ clock = 0
    /\ confirm = NoConfirm
    /\ nReservations = 0

\* no call of generate_tts_chunked or normalize is part of the run
InitFiles(conv, srv) ==
    /\ InitState(conv, srv)
    /\ ttsCall = NoTtsCall
    /\ normCall = NoNormCall

\* a fresh installation: neither counter file exists
Init == InitFiles(FileMissing, FileMissing)

Next ==
    \/ \E m \in UserMessages, c \in MaxCharsInputs : StartRequest(m, c, MaxRequests)
    \/ HandleHandshake
    \/ \E t \in DeltaTexts : HandleDelta(t, MaxDeltas)
    \/ HandleAction(MaxActions)
    \/ \E r \in Responses : \E f \in FileOutcomes(r) : HandleTextDone(r, f)
    \/ HandleError
    \/ GatewayTimeout
    \/ \E i \in TaskIds, p \in ProviderOutcomes : TtsWorker(i, p)
    \/ DrainTask
    \/ DrainTimeout

Spec == Init /\ [][Next]_vars

(***************************************************************************)
(* Properties of the client stream.                                        *)
(***************************************************************************)
Positions(types) == {i \in 1..Len(out) : out[i].type \in types}

NumOf(types) == Cardinality(Positions(types))

\* the tasks the generator still waits for
Awaited ==
    IF pc = "loop" THEN Range(pending)
    ELSE IF pc = "drain" THEN {pending[k] : k \in (drainIdx + 1)..Len(pending)}
    ELSE {}

\* C1 as stated: a finished stream holds exactly one event of
\* {text_done, error, no_audio}: violated, text_done is followed by no_audio
\* when nothing is spoken.
C1_ExactlyOneTerminal ==
    pc = "done" => NumOf({"text_done", "error", "no_audio"}) = 1

\* C1 amended: a stream never holds more than one of {text_done, error} nor
\* more than one no_audio; a finished stream holds exactly one text_done or
\* error, or else (suppressed sentinel) only a no_audio; a no_audio beside a
\* text_done comes after it, and never beside an error.
C1_TerminalEvents ==
    /\ NumOf({"text_done", "error"}) <= 1
    /\ NumOf({"no_audio"}) <= 1
    /\ NumOf({"error"}) = 1 => NumOf({"no_audio"}) = 0
    /\ \A i \in Positions({"no_audio"}), j \in Positions({"text_done"}) : j < i
    /\ pc = "done" =>
          \/ NumOf({"text_done", "error"}) = 1
          \/ /\ NumOf({"text_done", "error"}) = 0
             /\ NumOf({"no_audio"}) = 1
             /\ IsSentinel(userMessage, fullResponse)
    /\ pc \in {"loop", "drain"} => NumOf({"error", "no_audio"}) = 0

C1_Witness ==
    /\ pc = "done"
    /\ NumOf({"text_done"}) = 1
    /\ NumOf({"no_audio"}) = 1

\* C2: audio is emitted in the order the sentences were extracted: of two
\* audio events of TTS tasks the earlier one belongs to the earlier task, and
\* when a task's audio is on the stream no earlier task is still awaited.
C2_AudioInSentenceOrder ==
    /\ \A i, j \in Positions({"audio"}) :
          (i < j /\ out[i].task > 0 /\ out[j].task > 0) => out[i].task < out[j].task
    /\ \A i \in Positions({"audio"}) :
          \A t \in Awaited : out[i].task > 0 => out[i].task < t

C2_Witness ==
    /\ pc = "done"
    /\ \E i, j \in Positions({"audio"}) :
          /\ i < j
          /\ out[i].from = "flush"
          /\ out[j].from = "drain"
    /\ \E t \in 1..Len(tasks) : tasks[t].read /\ tasks[t].audio = "None"

\* C3 as stated: the chunk fields of the audio events increase strictly and
\* the first one is 0: violated.
C3_ChunksIncreaseFromZero ==
    /\ \A i, j \in Positions({"audio"}) : i < j => out[i].chunk < out[j].chunk
    /\ \A i \in Positions({"audio"}) :
          (\A j \in Positions({"audio"}) : i <= j) => out[i].chunk = 0

\* C4 as stated: every audio event comes after a text_done or an action
\* event of the stream: violated, the flush writes before the action line.
C4_AudioAfterTextDoneOrAction ==
    \A i \in Positions({"audio"}) :
        \E j \in Positions({"text_done", "action"}) : j < i

\* C4 amended: every audio event is written after the generator took a
\* text_done or an action event from the gateway: the audio of the drain and
\* of the file passthrough follows the text_done line, and the audio flushed
\* at an action is followed by that action's line with nothing but flushed
\* audio and tts_error lines between.
C4_AudioAfterTrigger ==
    \A i \in Positions({"audio"}) :
        IF out[i].from = "flush"
        THEN /\ gotAction
             /\ \E j \in Positions({"action"}) :
                   /\ i < j
                   /\ \A k \in (i + 1)..(j - 1) :
                         out[k].from = "flush" /\ out[k].type \in {"audio", "tts_error"}
        ELSE \E j \in Positions({"text_done"}) : j < i

C4_Witness ==
    /\ \E i \in Positions({"audio"}) :
          out[i].from = "flush" /\ \A j \in Positions({"text_done", "action"}) : i < j
    /\ \E i \in Positions({"audio"}) : out[i].from = "drain"

\* C6 as stated: when the provider raised for a sentence and the generator
\* has read that task's result, the stream holds a tts_error for it with the
\* classified reason: violated, generate_tts_b64 swallows the error.
C6_ProviderFailureReported ==
    \A t \in 1..Len(tasks) :
        (tasks[t].read /\ tasks[t].provider \notin {"None", "ok"}) =>
            \E i \in Positions({"tts_error"}) :
                /\ out[i].task = t
                /\ out[i].text = <<TtsErrorReason(tasks[t].provider)>>

MaxStreamBumps == 1

NextBump ==
    \/ Next
    \/ HandlerGet(1, MaxStreamBumps)
    \/ BumpRead(1)
    \/ BumpTruncate(1)
    \/ BumpWrite(1)
    \/ BumpReturn(1)

SpecBump == Init /\ [][NextBump]_vars

\* C8 as stated: once the session counter has been bumped, no delta, action,
\* audio or text_done of the request in flight is written: violated, nothing
\* compares the captured key with the current one.
C8_NoOutputAfterBump ==
    outAtBump # NoNum =>
        \A i \in (outAtBump + 1)..Len(out) :
            out[i].type \notin {"delta", "action", "audio", "text_done"}

(***************************************************************************)
(* Session keys: concurrent bumps, the reset endpoint, and the requests   *)
(* that capture a key.                                                     *)
(***************************************************************************)
MaxBumpCalls == 2
MaxResets == 1
MaxSessionRequests == 2

\* the counter file of server.py does not exist, or holds the counter that
\* conversation.py starts from
InitSession == \E srv \in {FileMissing, FileOf(DefaultCounter)} : InitFiles(FileMissing, srv)

NextSession ==
    \/ \E m \in UserMessages, c \in MaxCharsInputs :
           StartRequest(m, c, MaxSessionRequests)
    \/ HandleError
    \/ \E t \in BumpThreads : HandlerGet(t, MaxBumpCalls)
    \/ \E t \in BumpThreads : BumpRead(t)
    \/ \E t \in BumpThreads : BumpTruncate(t)
    \/ \E t \in BumpThreads : BumpWrite(t)
    \/ \E t \in BumpThreads : BumpReturn(t)
    \/ \E mode \in ResetModes : SessionReset(mode, MaxResets)

SpecSession == InitSession /\ [][NextSession]_vars

\* C9 as stated: every key bump_voice_session returns has a counter greater
\* than that of every key get/bump_voice_session returned before: violated,
\* two bumps that read the file before either writes return the same key.
C9_BumpReturnsGreaterKey ==
    \A j \in 1..Len(returned) :
        returned[j].op = "bump" =>
            \A i \in 1..(j - 1) : returned[i].n < returned[j].n

\* C10 as stated: the first conversation request after a successful reset
\* uses the key the reset returned, which differs from the key of the
\* request before the reset: violated, the endpoint bumps server.py's
\* counter file and conversation.py reads its own file and cache.
C10_NextRequestUsesResetKey ==
    (resetResponse # NoReset /\ nRequests = resetAt + 1) =>
        /\ sessionKey = resetResponse.new
        /\ resetAt > 0 => sessionKey # keyAtReset

(***************************************************************************)
(* Sentence extraction on token streams that carry tags and fences.       *)
(***************************************************************************)
\* 40 characters without a terminator
Filler == Rep("a", MinSentence)

TagDeltaTexts == {Filler, <<"[", "a">>, <<".", " ">>, <<"]">>, Fence}

MaxTagDeltas == 4

NextSentence ==
    \/ \E m \in UserMessages, c \in MaxCharsInputs : StartRequest(m, c, MaxRequests)
    \/ \E t \in TagDeltaTexts : HandleDelta(t, MaxTagDeltas)

SpecSentence == Init /\ [][NextSentence]_vars

\* the number of '[' of text that no later ']' closes
RECURSIVE OpenBrackets(_, _)
OpenBrackets(brackets, depth) ==
    IF brackets = <<>> THEN depth
    ELSE OpenBrackets(Tail(brackets),
                      IF Head(brackets) = "[" THEN depth + 1
                      ELSE IF depth > 0 THEN depth - 1
                      ELSE depth)

Unclosed(text) == OpenBrackets(SelectSeq(text, LAMBDA c : c \in {"[", "]"}), 0)

\* C5 as stated: no sentence handed to TTS while the deltas stream in ends
\* inside a [...] tag or inside a code fence: violated, the guard compares
\* the counts of the whole buffer and the cut may fall inside a closed tag.
C5_NoCutInsideTagOrFence ==
    pc = "loop" =>
        \A t \in 1..Len(tasks) :
            /\ Unclosed(tasks[t].raw) = 0
            /\ CountSub(tasks[t].raw, Fence) % 2 = 0

(***************************************************************************)
(* Requests in sequence, streaming or not, whose gateway answers with an  *)
(* empty or a non-empty text_done, or with none.                           *)
(***************************************************************************)
EmptyResponses == {None, <<" ">>, <<"N", "O">>, ShortSentence}

NonStreamOutcomes == {NoTextDone} \cup {GotTextDone(r) : r \in EmptyResponses}

MaxEmptyRequests == 3

NextEmpty ==
    \/ \E m \in UserMessages, c \in MaxCharsInputs :
           StartRequest(m, c, MaxEmptyRequests)
    \/ \E r \in EmptyResponses : HandleTextDone(r, TRUE)
    \/ HandleError
    \/ GatewayTimeout
    \/ \E i \in TaskIds, p \in ProviderOutcomes : TtsWorker(i, p)
    \/ DrainTask
    \/ DrainTimeout
    \/ \E m \in UserMessages, configured \in BOOLEAN, gw \in NonStreamOutcomes,
          p \in ProviderOutcomes :
           NonStreamRequest(m, configured, gw, p, MaxEmptyRequests)

SpecEmpty == Init /\ [][NextEmpty]_vars

\* the handler of the text_done e wrote one session_reset line with reason
\* consecutive_empty and a new key, bumped the counter file and left the
\* counter of empty responses at 0
AutoResetDone(e) ==
    /\ Len(e.resets) = 1
    /\ e.resets[1].text = <<"consecutive_empty">>
    /\ e.resets[1].new # e.resets[1].old
    /\ e.ctr = e.ctr0 + 1
    /\ e.ce = 0

\* C11 as stated: when three text_dones in a row carry an empty response
\* (no bump at the first two) and the third belongs to a streaming request,
\* the third request writes session_reset (consecutive_empty, new key # old
\* key), the counter is bumped and the counter of empty responses is 0:
\* violated, the non-streaming path never counts an empty text_done.
C11_ThirdEmptyResets ==
    \A i \in 3..Len(doneLog) :
        ( /\ \A j \in (i - 2)..i : doneLog[j].empty
          /\ \A j \in (i - 2)..(i - 1) : ~doneLog[j].bumped
          /\ doneLog[i].stream )
        => AutoResetDone(doneLog[i])

\* the types of the last n lines of the stream
LastTypes(n) ==
    [k \in 1..n |-> IF Len(out) - n + k >= 1 THEN out[Len(out) - n + k].type ELSE "none"]

\* C12 as stated: the stream of the request whose empty text_done triggers
\* the auto-reset ends with text_done, no_audio, session_reset: violated,
\* session_reset is written before no_audio.
C12_ResetLineAfterNoAudio ==
    ( /\ pc = "done"
      /\ doneLog # <<>>
      /\ doneLog[Len(doneLog)].req = nRequests
      /\ doneLog[Len(doneLog)].stream
      /\ doneLog[Len(doneLog)].resets # <<>> )
    => LastTypes(3) = <<"text_done", "no_audio", "session_reset">>

\* C13 as stated: every text_done the orchestrator takes from a gateway
\* leaves the counter of empty responses at its old value plus one when the
\* response is empty or blank (0 when the handler bumped the session), and
\* at 0 when it is not: violated by the non-streaming path and by the
\* suppressed NO/YES answer.
C13_CounterFollowsTextDone ==
    \A i \in 1..Len(doneLog) :
        /\ doneLog[i].bumped => doneLog[i].ce = 0
        /\ (doneLog[i].empty /\ ~doneLog[i].bumped) =>
               doneLog[i].ce = doneLog[i].ce0 + 1
        /\ ~doneLog[i].empty => doneLog[i].ce = 0

(***************************************************************************)
(* The session functions called in sequence while the counter file is     *)
(* removed, damaged or loses a permission.                                 *)
(***************************************************************************)
MaxFileCalls == 4

NextFile ==
    \/ CallGetKey(MaxFileCalls)
    \/ CallBump(MaxFileCalls)
    \/ \E kind \in FileFaults : FileFault(kind)

SpecFile == Init /\ [][NextFile]_vars

\* C14 as stated: whatever happens to the counter file, neither function
\* raises, and no returned key has a smaller counter than a key returned
\* before: violated, a PermissionError escapes both functions, and a bump
\* after the file was deleted or corrupted restarts from the default.
C14_FileFailureTolerated ==
    \A j \in 1..Len(returned) :
        /\ returned[j].op \in {"get", "bump"}
        /\ \A i \in 1..(j - 1) : returned[i].n <= returned[j].n

(***************************************************************************)
(* One stream_to_queue call, through the manager or on the gateway, for   *)
(* every registry and every answer of the endpoint.                        *)
(***************************************************************************)
\* delta.content: absent or null, empty, or a token
Contents == {None, <<>>, <<"a">>, <<"b">>}

SseLines ==
    {SseBlank, SseOther, SseDone, SseBadJson, SseNoChoices, SseRaise}
        \cup {SseChunk(c, f) : c \in Contents, f \in BOOLEAN}

MaxSseLines == 3

\* gateway_id of the request: absent, a known id, or one nothing registers
RequestedIds == {"", "openclaw", "openai-compat", "other"}

MaxRouteCalls == 1

NextRouting ==
    \/ \E g \in GatewayIds, c \in BOOLEAN : Register(g, c)
    \/ \E g \in RequestedIds, h \in PostOutcomes :
           ManagerStreamToQueue(g, "A", <<"a">>, <<>>, h, MaxRouteCalls)
    \/ \E h \in PostOutcomes : CallGateway("A", <<"a">>, <<>>, h, MaxRouteCalls)
    \/ \E line \in SseLines : ReadLine(line, MaxSseLines)
    \/ EndOfStream

SpecRouting == Init /\ [][NextRouting]_vars

\* when the call was made the gateway id was registered and its
\* is_configured() true
Usable(gid) == Registered(gwCall.reg, gid) /\ gwCall.reg[gid] = "configured"

\* C15 as stated: the manager invokes the requested gateway when it is
\* registered and configured, else the default gateway when that one is
\* registered and configured, else it puts a single error event and invokes
\* none: violated, a registered but unconfigured gateway is answered with
\* the error although the default is configured.
C15_RoutesToRequestedOrDefault ==
    gwCall.via = "manager" =>
        IF Usable(gwCall.requested) THEN gwCall.routedTo = gwCall.requested
        ELSE IF Usable(DefaultGateway) THEN gwCall.routedTo = DefaultGateway
        ELSE /\ gwCall.routedTo = ""
             /\ Len(gwCall.queue) = 1
             /\ gwCall.queue[1].type = "error"

\* the gateway the manager settles on: the requested one when registered,
\* else the default one when registered, else none ("")
Target(reg, requested) ==
    IF Registered(reg, requested) THEN requested
    ELSE IF Registered(reg, DefaultGateway) THEN DefaultGateway ELSE ""

\* C15 amended: the manager settles on the requested gateway when it is
\* registered, else on the default gateway when that one is registered; it
\* invokes the gateway it settled on if that gateway is configured, and
\* otherwise (none, or not configured) puts a single error event and invokes
\* no gateway.
C15_RoutesToRegisteredOrDefault ==
    gwCall.via = "manager" =>
        IF Usable(Target(gwCall.reg, gwCall.requested))
        THEN gwCall.routedTo = Target(gwCall.reg, gwCall.requested)
        ELSE /\ gwCall.routedTo = ""
             /\ Len(gwCall.queue) = 1
             /\ gwCall.queue[1].type = "error"

\* a request for a gateway that is not registered went to the default one
C15_Witness ==
    /\ gwCall.via = "manager"
    /\ gwCall.requested # DefaultGateway
    /\ ~Registered(gwCall.reg, gwCall.requested)
    /\ gwCall.routedTo = DefaultGateway

\* a request for a registered gateway that is not configured was answered
\* with the error although the default one was configured
C15_WitnessUnconfigured ==
    /\ gwCall.via = "manager"
    /\ Registered(gwCall.reg, gwCall.requested)
    /\ ~Usable(gwCall.requested)
    /\ Usable(DefaultGateway)
    /\ gwCall.routedTo = ""
    /\ Len(gwCall.queue) = 1

\* the positions of the queue that hold a terminal event
Terminals(q) == {i \in 1..Len(q) : q[i].type \in {"text_done", "error"}}

\* C16: a call answered by the manager itself or by the OpenAI-compatible
\* gateway leaves exactly one terminal event on the queue, and it is the
\* last event.
C16_OneTerminalEventLast ==
    /\ (gwCall.state = "done" /\ gwCall.routedTo # DefaultGateway) =>
           Terminals(gwCall.queue) = {Len(gwCall.queue)}
    /\ gwCall.state = "streaming" => Terminals(gwCall.queue) = {}

\* a stream broke after a delta had been put: the error is still the only
\* terminal event
C16_Witness ==
    /\ gwCall.routedTo = "openai-compat"
    /\ Len(gwCall.queue) = 3
    /\ gwCall.queue[2].type = "delta"
    /\ gwCall.queue[3].type = "error"

RECURSIVE Joined(_, _)
\* the texts of the delta events of q from position i on, concatenated
Joined(q, i) ==
    IF i > Len(q) THEN <<>>
    ELSE (IF q[i].type = "delta" THEN q[i].text ELSE <<>>) \o Joined(q, i + 1)

\* C17: when the call ends with text_done, the queue is handshake, deltas,
\* text_done, and the response is the deltas' texts joined, or null when
\* there is no delta.
C17_ResponseIsJoinedDeltas ==
    (gwCall.queue # <<>> /\ gwCall.queue[Len(gwCall.queue)].type = "text_done") =>
        /\ gwCall.queue[1].type = "handshake"
        /\ \A i \in 2..(Len(gwCall.queue) - 1) : gwCall.queue[i].type = "delta"
        /\ gwCall.queue[Len(gwCall.queue)].text =
               IF Len(gwCall.queue) = 2 THEN None ELSE Joined(gwCall.queue, 1)

\* two different tokens were streamed before text_done
C17_Witness ==
    /\ Len(gwCall.queue) = 4
    /\ gwCall.queue[4].type = "text_done"
    /\ gwCall.queue[2].text # gwCall.queue[3].text

\* a stream that ends without any token
C17_WitnessNull ==
    /\ Len(gwCall.queue) = 2
    /\ gwCall.queue[2].type = "text_done"
    /\ gwCall.queue[2].text = None

(***************************************************************************)
(* The conversation history of the OpenAI-compatible gateway: one session *)
(* key, many turns, so that the history outgrows MAX_HISTORY.             *)
(***************************************************************************)
\* the user's messages, one per turn, all different
Turns == <<"a", "b", "c", "d", "e", "f", "g", "h", "i", "j", "k", "l", "m", "n",
           "o", "p">>

\* the message of the n-th call
UserMsg(n) == <<Turns[n]>>

MaxHistoryCalls == 12

\* the endpoint answers with one token and a finish_reason, or with [DONE],
\* or the connection breaks
HistoryLines == {SseChunk(<<"x">>, TRUE), SseDone, SseRaise}

NextHistory ==
    \/ \E h \in PostOutcomes :
           CallGateway("A", UserMsg(nGwCalls + 1), <<>>, h, MaxHistoryCalls)
    \/ \E line \in HistoryLines : ReadLine(line, MaxSseLines)
    \/ EndOfStream

SpecHistory == Init /\ [][NextHistory]_vars

\* the last n entries of s (all of s when it has fewer)
LastN(s, n) == IF Len(s) > n THEN SubSeq(s, Len(s) - n + 1, Len(s)) ELSE s

\* C18: whatever calls were made and however they ended, a session key's
\* history holds at most MAX_HISTORY entries, and they are the most recently
\* appended ones in the order in which they were appended.
C18_HistoryIsLastTwenty ==
    \A k \in SessionKeys :
        /\ Len(sessions[k]) <= MAX_HISTORY
        /\ sessions[k] = LastN(appended[k], MAX_HISTORY)

\* more than MAX_HISTORY entries were appended under the key, the oldest
\* are gone
C18_Witness ==
    /\ GatewayIdle
    /\ Len(appended["A"]) > MAX_HISTORY + 1
    /\ Len(sessions["A"]) = MAX_HISTORY
    /\ sessions["A"][1] # appended["A"][1]

(***************************************************************************)
(* Two session keys talking to the OpenAI-compatible gateway in turn.     *)
(***************************************************************************)
MaxIsolationCalls == 4

\* what _load_system_prompt returns: nothing or a prompt
SystemPrompts == {<<>>, <<"s">>}

NextIsolation ==
    \/ \E k \in SessionKeys, sp \in SystemPrompts, h \in {"ok", "non200"} :
           CallGateway(k, UserMsg(nGwCalls + 1), sp, h, MaxIsolationCalls)
    \/ \E line \in HistoryLines : ReadLine(line, MaxSseLines)
    \/ EndOfStream

SpecIsolation == Init /\ [][NextIsolation]_vars

\* the messages of the payload that come from the history: all but the
\* system prompt, if any, and the new user message
SentHistory(sent) ==
    IF sent # <<>> /\ sent[1].role = "system"
    THEN SubSeq(sent, 2, Len(sent) - 1)
    ELSE SubSeq(sent, 1, Len(sent) - 1)

\* C19: a call with key A sends no turn recorded under another key and
\* leaves the other keys' histories as it found them, and the turns it
\* sends before the new message are the ones recorded under A so far.
C19_HistoriesIsolated ==
    gwCall.routedTo = "openai-compat" =>
        /\ \A i \in 1..Len(gwCall.sent) : gwCall.sent[i].owner \in {"", gwCall.key}
        /\ \A k \in SessionKeys \ {gwCall.key} : sessions[k] = gwCall.before[k]
        /\ SentHistory(gwCall.sent) = gwCall.before[gwCall.key]
        /\ gwCall.sent[Len(gwCall.sent)] = Message("user", gwCall.message, "")

\* a later call with key B, made after key A had recorded turns of its own,
\* sends B's earlier user and assistant turns
C19_Witness ==
    /\ gwCall.key = "B"
    /\ gwCall.state = "done"
    /\ gwCall.before["A"] # <<>>
    /\ Len(gwCall.before["B"]) >= 2
    /\ gwCall.before["B"][1].role = "user"
    /\ gwCall.before["B"][2].role = "assistant"
    /\ SentHistory(gwCall.sent) = gwCall.before["B"]

(***************************************************************************)
(* The fallback chain as the client sees it (checked under SpecEmpty).    *)
(***************************************************************************)
\* the NDJSON line of a gateway error or of the gateway timeout
GatewayFailureLines == {Plain("error", "error"), Plain("error", "timeout")}

\* the JSON body of a non-streaming request is never empty, and it comes
\* from the fallback chain, counted, when the gateway left no text
C20_JsonReplyNeverEmpty ==
    reply # NoReply =>
        /\ Truthy(reply.response)
        /\ ~Truthy(reply.gateway) => reply.fallbackUsed = 1

\* a stream carries no text_done line with an empty response
C20_StreamTextNeverEmpty ==
    \A i \in 1..Len(out) : out[i].type = "text_done" => Truthy(out[i].text)

\* a stream whose gateway failed still carries a text_done line
C20_StreamFailureAnswered ==
    \A i \in 1..Len(out) :
        out[i] \in GatewayFailureLines => \E j \in 1..Len(out) : out[j].type = "text_done"

\* C20 as stated: when the gateway is unconfigured or ends without a text,
\* the response text comes from the fallback path with fallback_used = 1 or
\* is the canned apology, and the client never receives an empty response
\* text, streaming or not: violated by the streaming path, which writes the
\* gateway's error or its empty text_done through.
C20_FallbackNeverEmpty ==
    /\ C20_JsonReplyNeverEmpty
    /\ C20_StreamTextNeverEmpty
    /\ C20_StreamFailureAnswered

(***************************************************************************)
(* The suppressed sentinel (checked under Spec).                           *)
(***************************************************************************)
\* the current streaming request received a text_done that is a bare NO or
\* YES answer to a system trigger
SentinelReceived ==
    \E k \in 1..Len(doneLog) :
        doneLog[k].req = nRequests /\ doneLog[k].stream /\ doneLog[k].sentinel

\* C21 as stated: the client trace of a suppressed sentinel holds a
\* text_done followed by no_audio, and no audio: violated, no text_done line
\* is written.
C21_SentinelTrace ==
    SentinelReceived =>
        /\ NumOf({"text_done"}) = 1
        /\ NumOf({"audio"}) = 0
        /\ \A i \in Positions({"text_done"}) : \E j \in Positions({"no_audio"}) : i < j

\* C21 amended: the handler of a sentinel text_done writes one line,
\* no_audio, which ends the stream; it writes no text_done and no handshake
\* line, spawns no TTS task and drains none, so the only audio on the stream
\* is what an earlier action event flushed.
C21_SentinelOnlyNoAudio ==
    SentinelReceived =>
        /\ pc = "done"
        /\ NumOf({"text_done", "handshake", "error", "session_reset"}) = 0
        /\ Positions({"no_audio"}) = {Len(out)}
        /\ \A i \in 1..Len(tasks) : tasks[i].origin = "sentence"
        /\ \A i \in Positions({"audio"}) : out[i].from = "flush"

\* a sentinel arrived after a delta had been forwarded and the handshake seen
C21_Witness ==
    /\ SentinelReceived
    /\ started
    /\ nDeltas > 0
    /\ Len(out) = nDeltas + 1
    /\ out[Len(out)].type = "no_audio"

(***************************************************************************)
(* The input guard: requests with acceptable and unacceptable messages    *)
(* while a stream and the sink's writer are at work.                      *)
(***************************************************************************)
GuardBodies ==
    { Body(0, 0, 0, FALSE, <<"p">>),
      Body(1, 0, 1, FALSE, NoPage),
      Body(0, 1, 0, FALSE, <<"p">>),
      Body(1, 3, 0, TRUE, NoPage),
      Body(0, MaxMessageLen, 1, FALSE, <<"q">>),
      Body(0, MaxMessageLen + 1, 0, FALSE, <<"q">>) }

MaxPosts == 2

NextGuard ==
    \/ \E b \in GuardBodies : PostConversation(b, MaxPosts, MaxPosts)
    \/ \E r \in EmptyResponses : HandleTextDone(r, TRUE)
    \/ HandleError
    \/ WriterTake
    \/ \E ok \in BOOLEAN : WriterWrite(ok)

SpecGuard == Init /\ [][NextGuard]_vars

\* the message of the body, once stripped, is empty or longer than 4000
EmptyOrTooLong(body) == body.chars = 0 \/ body.chars > MaxMessageLen

MaxCommands == 3

MaxPolls == 3

NextSide ==
    \/ \E t \in Handlers, n \in 1..2 : QueueCommands(t, n, MaxCommands)
    \/ \E t \in Handlers : AppendCommand(t)
    \/ \E t \in Pollers : PollAcquire(t, MaxPolls)
    \/ \E t \in Pollers : PollCopy(t)
    \/ \E t \in Pollers : PollClear(t)
    \/ \E t \in Pollers : PollReturn(t)

SpecSide == Init /\ [][NextSide]_vars

\* the places that hold command c: the pending queue, the list a GET has
\* taken and not yet returned, the lists returned
Holders(c) ==
    (IF \E i \in 1..Len(canvasPending) : canvasPending[i] = c THEN {"pending"} ELSE {})
    \cup {t \in Pollers : /\ sidePc[t] = "return"
                          /\ \E i \in 1..Len(sideLocal[t]) : sideLocal[t][i] = c}
    \cup {k \in 1..Len(delivered) : \E i \in 1..Len(delivered[k]) : delivered[k][i] = c}

\* the position of command c in the order of queuing
QueuedAt(c) == FirstOf({i \in 1..Len(queuedLog) : queuedLog[i] = c})

\* the list l holds different commands, in the order they were queued
InQueueOrder(l) ==
    \A i, j \in 1..Len(l) : i < j => QueuedAt(l[i]) < QueuedAt(l[j])

\* C23: every queued command is in exactly one place (still pending, or in
\* the answer of exactly one GET), and every answer lists its commands
\* once, in the order they were queued; a later answer holds later commands.
C23_EachCommandReturnedOnce ==
    /\ \A i \in 1..Len(queuedLog) : Cardinality(Holders(queuedLog[i])) = 1
    /\ \A k \in 1..Len(delivered) : InQueueOrder(delivered[k])
    /\ \A t \in Pollers : InQueueOrder(sideLocal[t])
    /\ InQueueOrder(canvasPending)

\* two GETs answered with commands, the second with one that was queued
\* while the first was being answered
C23_Witness ==
    /\ Len(delivered) >= 2
    /\ delivered[1] # <<>>
    /\ delivered[2] # <<>>
    /\ Len(queuedLog) = MaxCommands
    /\ canvasPending = <<>>

(***************************************************************************)
(* The durable sink: producers, the writer thread and a flushing test.    *)
(***************************************************************************)
MaxItems == 2

MaxEmptyPolls == 1

NextSink ==
    \/ \E k \in ItemKinds, p \in DbPaths : LogWrite(k, p, MaxItems)
    \/ WriterTake
    \/ WriterPollEmpty(MaxEmptyPolls)
    \/ \E ok \in BOOLEAN : WriterWrite(ok)
    \/ FlushCall
    \/ FlushReturn

\* the writer is a thread that loops for ever, and join() returns once it
\* can
SpecSink ==
    /\ Init
    /\ [][NextSink]_vars
    /\ WF_vars(WriterTake)
    /\ WF_vars(\E ok \in BOOLEAN : WriterWrite(ok))
    /\ WF_vars(FlushReturn)

\* the entries of dbLog about item id
LogOf(id) == {k \in 1..Len(dbLog) : dbLog[k].id = id}

\* the items the writer has finished
FinishedItems == {k \in 1..Len(dbLog) : dbLog[k].id # 0}

\* task_done was called once per item taken and never for an empty poll,
\* no item is processed twice, and a flush that returned found every item
\* put before it processed
SinkAccounting ==
    /\ dbUnfinished = nEnqueued - Cardinality(FinishedItems)
    /\ \A id \in 1..nEnqueued : Cardinality(LogOf(id)) <= 1
    /\ \A k \in FinishedItems : dbLog[k].outcome \in {"committed", "dropped"}
    /\ dbFlush.state = "returned" => \A id \in 1..dbFlush.upto : LogOf(id) # {}

\* C24: every queued write is eventually taken by the writer and committed
\* or dropped; _flush_db_writes returns only when every item put before the
\* call has been processed; task_done is called once per item and never for
\* an empty poll.
C24_EveryWriteProcessed ==
    /\ []SinkAccounting
    /\ \A id \in 1..MaxItems : (nEnqueued >= id) ~> (LogOf(id) # {})

\* a flush returned after an empty poll, a dropped and a committed write
C24_Witness ==
    /\ dbFlush.state = "returned"
    /\ dbFlush.upto >= 2
    /\ \E k \in 1..Len(dbLog) : dbLog[k].outcome = "empty"
    /\ \E k \in 1..Len(dbLog) : dbLog[k].outcome = "dropped"
    /\ \E k \in 1..Len(dbLog) : dbLog[k].outcome = "committed"

\* the writes that failed
Dropped == {k \in 1..Len(dbLog) : dbLog[k].outcome = "dropped"}

\* a failed item is nowhere but in the log, once
DroppedForGood ==
    \A k \in Dropped :
        /\ \A i \in 1..Len(dbQueue) : dbQueue[i].id # dbLog[k].id
        /\ dbWriter.id # dbLog[k].id
        /\ Cardinality(LogOf(dbLog[k].id)) = 1

MaxChunks == 3

\* every way the synthesis of 2..MaxChunks chunks can go
ChunkRuns ==
    UNION {[1..n -> ChunkOutcomes] : n \in 2..MaxChunks}

InitChunk ==
    /\ InitState(FileMissing, FileMissing)
    /\ normCall = NoNormCall
    /\ ttsCall \in {TtsCallOf(o, f) : o \in ChunkRuns, f \in {"wav", "raise"}}

NextChunk == ChunkedReturn

SpecChunk == InitChunk /\ [][NextChunk]_vars

RECURSIVE PcmUpTo(_)
\* the PCM data of the chunks 1..n, in order
PcmUpTo(n) == IF n = 0 THEN <<>> ELSE PcmUpTo(n - 1) \o PcmOf(n)

\* C26 as stated: what generate_tts_chunked returns for a WAV provider is
\* the PCM data of every chunk in order, or an error, never a container
\* without the audio of a chunk that failed: violated, a failed chunk is
\* left out and the rest returned.
C26_CompleteOrError ==
    (ttsCall.state = "returned" /\ \A i \in 1..Len(ttsCall.outcomes) :
                                       ttsCall.outcomes[i] # "other") =>
        \/ ttsCall.result.kind = "error"
        \/ /\ ttsCall.result.kind = "wav"
           /\ ttsCall.result.pcm = PcmUpTo(Len(ttsCall.outcomes))

(***************************************************************************)
(* The track reservation: reserving, syncing, deleting and confirming     *)
(* while time passes.                                                      *)
(***************************************************************************)
MaxReservations == 2

MaxClock == 47

\* the seconds between two calls: 30 s after the reservation is inside the
\* window, 31 s is outside
TickSteps == {15, 16}

NextMusic ==
    \/ \E dt \in TickSteps : Tick(dt, MaxClock)
    \/ \E track \in Tracks : ReserveTrack(track, MaxReservations)
    \/ GetReservedTrack
    \/ DeleteReservedTrack
    \/ \E rid \in 0..MaxReservations : ConfirmRead(rid)
    \/ ConfirmClear

SpecMusic == InitFiles(FileMissing, FileMissing) /\ [][NextMusic]_vars

\* C27 as stated: a confirm succeeds only with the id of the reservation
\* held and within 30 s of reserve_track: violated, the confirm handler
\* never looks at reserved_at.
C27_ConfirmOnlyCurrentWithinTtl ==
    confirm.result = "confirmed" =>
        /\ confirm.rid = confirm.held.id
        /\ confirm.rid # 0
        /\ confirm.at - confirm.held.at <= ReservationTtl

(***************************************************************************)
(* SpeechNormalizer.normalize applied twice.                               *)
(***************************************************************************)
MaxTextLen == 6

SpeechChars == {"a", ".", " ", Newline}

SpeechTexts == UNION {[1..n -> SpeechChars] : n \in 0..MaxTextLen}

\* max_length of the profile: small enough for texts of MaxTextLen
\* characters to be cut, 5 the least value at which a sentence boundary
\* can be accepted
MaxLengths == {2, 5}

InitNormalize ==
    /\ InitState(FileMissing, FileMissing)
    /\ ttsCall = NoTtsCall
    /\ normCall \in {NormCallOf(t, m) : t \in SpeechTexts, m \in MaxLengths}

NextNormalize == NormalizeReturn \/ NormalizeAgain

SpecNormalize == InitNormalize /\ [][NextNormalize]_vars

\* C28 as stated: normalize(normalize(x)) = normalize(x) for every text and
\* profile, truncated texts included: violated, the "..." appended by the
\* truncation is cut and extended again, and blanks around a line break
\* are collapsed only by the second call.
C28_NormalizeIdempotent ==
    normCall.state = "twice" => normCall.twice = normCall.once

\* C29 as stated: the task for the whole response is spawned only when no
\* sentence of the request was handed to TTS before, so it is the request's
\* only task: violated, the action flush empties the pending list and the
\* drain phase takes that for "no sentence extracted".
C29_WholeResponseOnlyTask ==
    \A i \in 1..Len(tasks) : tasks[i].origin = "whole" => Len(tasks) = 1

(***************************************************************************)
(* Deltas on their way to the client, with sentences and open tags.       *)
(***************************************************************************)
MaxForwarded == 2

\* a sentence that is handed to TTS at once, the opening half of a tag, and
\* its closing half followed by such a sentence
ForwardTexts == {LongSentence, <<"[", "a">>, <<"]">> \o LongSentence}

\* the responses that end the stream: none, and one that is spoken
ForwardResponses == {None, ShortSentence}

NextForward ==
    \/ \E c \in MaxCharsInputs : StartRequest(<<"a">>, c, MaxRequests)
    \/ HandleHandshake
    \/ \E t \in ForwardTexts : HandleDelta(t, MaxForwarded)
    \/ HandleAction(MaxActions)
    \/ \E r \in ForwardResponses : HandleTextDone(r, TRUE)
    \/ HandleError
    \/ \E i \in TaskIds, p \in ProviderOutcomes : TtsWorker(i, p)
    \/ DrainTask

SpecForward == Init /\ [][NextForward]_vars

\* the texts of the delta lines written to the client in this request
ForwardedTexts ==
    [i \in 1..NumOf({"delta"}) |->
        SelectSeq(out, LAMBDA e : e.type = "delta")[i].text]

\* the texts of the delta events the gateway has sent in this request
ReceivedTexts ==
    [i \in 1..Len(SelectSeq(deltaLog, LAMBDA d : d.req = nRequests)) |->
        SelectSeq(deltaLog, LAMBDA d : d.req = nRequests)[i].text]

\* C30: in every state of a streaming request the delta lines on the
\* client's stream carry, in order, exactly the texts of the delta events
\* received so far: none dropped, duplicated, reordered or altered.
C30_DeltasForwardedUnchanged == ForwardedTexts = ReceivedTexts

\* two deltas went through: the first opened a tag, which held the text
\* back from TTS, the second closed it and brought a sentence that was
\* handed to TTS; the stream has ended with a text_done
C30_Witness ==
    /\ pc = "done"
    /\ NumOf({"text_done"}) = 1
    /\ ReceivedTexts = <<<<"[", "a">>, <<"]">> \o LongSentence>>
    /\ \E i \in 1..Len(tasks) : tasks[i].origin = "sentence"

(***************************************************************************)
(* The start of the drain phase (checked under Spec).                     *)
(***************************************************************************)
\* the response the drain phase speaks: truncated, the marker stripped
DrainResponse(r) ==
    IF HasResetMarker(Truncated(r, maxResponseChars))
    THEN StripResetMarker(Truncated(r, maxResponseChars))
    ELSE Truncated(r, maxResponseChars)

\* the text_done handler of response r reaches the drain phase: no
\* suppressed sentinel, no file of the agent
ReachesDrain(r, f) ==
    /\ HandleTextDone(r, f)
    /\ ~IsSentinel(userMessage, Truncated(r, maxResponseChars))
    /\ ~IsAgentFilePath(DrainResponse(r))

\* the tasks the step spawned
Spawned == SubSeq(tasks', Len(tasks) + 1, Len(tasks'))

\* the lines the step wrote
Written == SubSeq(out', Len(out) + 1, Len(out'))

\* what the drain phase has to do for the response full
DrainDuty(full, rest, whole) ==
    /\ Len(Spawned) = (IF rest THEN 1 ELSE 0) + (IF whole THEN 1 ELSE 0)
    /\ rest => Spawned[1].raw = Strip(ttsBuf) /\ Spawned[1].origin = "remaining"
    /\ whole => Spawned[1].raw = full /\ Spawned[1].origin = "whole"
    /\ pending' = pending \o [i \in 1..Len(Spawned) |-> Len(tasks) + i]
    /\ IF pending' = <<>>
       THEN /\ pc' = "done"
            /\ Written[Len(Written)].type = "no_audio"
            /\ \A i \in 1..Len(Written) : Written[i].type # "audio"
       ELSE /\ pc' = "drain"
            /\ \A i \in 1..Len(Written) : Written[i].type \notin {"no_audio", "audio"}

C31_WitnessNoAudio ==
    /\ pc = "done"
    /\ tasks = <<>>
    /\ NumOf({"text_done"}) = 1
    /\ out[Len(out)].type = "no_audio"

(***************************************************************************)
(* max_response_chars: requests with a cap, responses around it.          *)
(***************************************************************************)
MaxResponseLen == 4

TruncateChars == {"a", ".", "?", " "}

TruncateTexts == UNION {[1..n -> TruncateChars] : n \in 1..MaxResponseLen}

\* max_response_chars of the request
TruncateLimits == {2, 3}

NextTruncate ==
    \/ \E c \in TruncateLimits : StartRequest(<<"a">>, c, MaxRequests)
    \/ \E r \in TruncateTexts : HandleTextDone(r, TRUE)

SpecTruncate == Init /\ [][NextTruncate]_vars

\* the positions of the sentence terminators among the first m characters
TerminatorsWithin(r, m) == {i \in 1..m : i <= Len(r) /\ r[i] \in {".", "!", "?"}}

\* the response as the claim has it for the gateway's response r and cap m
ClaimedResponse(r, m) ==
    IF Len(r) <= m THEN r
    ELSE IF TerminatorsWithin(r, m) # {}
         THEN SubSeq(r, 1, LastOf(TerminatorsWithin(r, m)))
         ELSE SubSeq(r, 1, m)

\* C33 as stated: the response of the text_done line is the gateway's
\* response when that has at most max_response_chars characters, else its
\* prefix up to the last terminator among the first max_response_chars
\* characters, or the first max_response_chars characters when there is
\* none: violated, a terminator in the first position is not taken for a
\* boundary and the result is stripped of leading white space.
C33_TruncatedPrefix ==
    [][\A r \in TruncateTexts :
          (HandleTextDone(r, TRUE) /\ maxResponseChars # 0) =>
              \E i \in 1..Len(out') :
                  /\ out'[i].type = "text_done"
                  /\ out'[i].text = ClaimedResponse(r, maxResponseChars)]_vars

(***************************************************************************)
(* The agent's [SESSION_RESET] marker in the deltas and in the response.  *)
(***************************************************************************)
\* the marker followed by a sentence long enough to be cut from the buffer
MarkedSentence == SessionResetMarker \o <<" ">> \o LongSentence

MarkerDeltas == {MarkedSentence, ShortSentence}

MarkerResponses == {MarkedSentence, SessionResetMarker \o <<" ">> \o ShortSentence}

NextMarker ==
    \/ \E m \in UserMessages, c \in MaxCharsInputs : StartRequest(m, c, MaxRequests)
    \/ \E t \in MarkerDeltas : HandleDelta(t, MaxDeltas)
    \/ HandleAction(MaxActions)
    \/ \E r \in MarkerResponses : HandleTextDone(r, TRUE)
    \/ \E i \in TaskIds, p \in ProviderOutcomes : TtsWorker(i, p)
    \/ DrainTask
    \/ DrainTimeout

SpecMarker == Init /\ [][NextMarker]_vars

\* C32 as stated: the text_done handler of a response with the marker bumps
\* the counter once, and no text of the request that a TTS worker hands to
\* the provider holds the marker, sentences cut from the deltas included:
\* violated, the marker is stripped from full_response only, a sentence cut
\* from the delta buffer goes to the worker with it.
C32_MarkerNeverSpoken ==
    [][\A r \in MarkerResponses :
          (HandleTextDone(r, TRUE) /\ HasResetMarker(Truncated(r, maxResponseChars))) =>
              /\ ReadCounter(convFile', DefaultCounter) =
                     ReadCounter(convFile, DefaultCounter) + 1
              /\ \A i \in 1..Len(tasks') :
                     ~Contains(tasks'[i].cleaned, SessionResetMarker)]_vars

\* the call ended in the retry with the truncated text (tts.py:164-166)
Retried == ttsCall.result.kind \in {"truncated", "error"}

\* C34 as stated: for a WAV provider the retry with the truncated text is
\* made only when every chunk failed, and chunks that succeed after a
\* failure are in the result, the format taken from the first of them:
\* violated, the format is read from chunk 1 only, so when chunk 1 fails the
\* audio of the later chunks is thrown away and the retry is made.
C34_RetryOnlyWhenAllFailed ==
    (ttsCall.state = "returned" /\ \A i \in 1..Len(ttsCall.outcomes) :
                                       ttsCall.outcomes[i] # "other") =>
        /\ Retried <=> \A i \in 1..Len(ttsCall.outcomes) : ttsCall.outcomes[i] = "raise"
        /\ ~Retried => ttsCall.result.pcm = Gather(ttsCall.outcomes, 1)

(***************************************************************************)
(* generate_tts_chunked: the chunks of a text.                             *)
(***************************************************************************)
MaxSplitLen == 6

SplitChars == {"a", ".", " "}

SplitTexts == UNION {[1..n -> SplitChars] : n \in 1..MaxSplitLen}

\* max_chars of the call
SplitLimits == {3}

InitSplit ==
    /\ InitState(FileMissing, FileMissing)
    /\ normCall = NoNormCall
    /\ ttsCall \in {SplitCallOf(t, c) : t \in SplitTexts, c \in SplitLimits}

NextSplit == ChunkedSplit

SpecSplit == InitSplit /\ [][NextSplit]_vars

\* the texts ts put one after the other with a blank between them
RECURSIVE JoinTexts(_)
JoinTexts(ts) ==
    IF ts = <<>> THEN <<>>
    ELSE IF Len(ts) = 1 THEN ts[1]
    ELSE ts[1] \o <<" ">> \o JoinTexts(Tail(ts))

\* the sentences of text that are not empty
SentencesOf(text) == SelectSeq(SplitSentences(text), LAMBDA s : s # <<>>)

\* C35 as stated: a text of at most max_chars characters goes to the
\* provider whole, in one call; of a longer text every chunk has at most
\* max_chars characters and the chunks hold its sentences, each once, in
\* order: violated, a sentence longer than max_chars is a chunk.
C35_ChunksWithinLimit ==
    ttsCall.state = "split" =>
        IF Len(ttsCall.text) <= ttsCall.maxChars
        THEN ttsCall.texts = <<ttsCall.text>>
        ELSE /\ \A i \in 1..Len(ttsCall.texts) :
                    Len(ttsCall.texts[i]) <= ttsCall.maxChars
             /\ SentencesOf(JoinTexts(ttsCall.texts)) = SentencesOf(Strip(ttsCall.text))

(***************************************************************************)
(* Termination of a streaming request.  The generator's two blocking      *)
(* calls carry a timeout: event_queue.get(timeout=310) hands over an      *)
(* event of the gateway or raises queue.Empty, done_evt.wait(timeout=30)  *)
(* returns.  The gateway sends a terminal event or falls silent; nothing  *)
(* is assumed of the TTS workers, which may never finish.                 *)
(***************************************************************************)
MaxLiveRequests == 1

MaxLiveDeltas == 2

MaxLiveActions == 1

LiveResponses == {None, LongSentence}

\* conversation.py:646-651, 692, 851: the loop gets the gateway's terminal
\* event, or no event for 310 s
GatewayEnds ==
    \/ \E r \in LiveResponses : HandleTextDone(r, TRUE)
    \/ HandleError
    \/ GatewayTimeout

\* conversation.py:820-821: the wait for the next pending task returns
DrainStep == DrainTask \/ DrainTimeout

NextLive ==
    \/ StartRequest(<<"a">>, 0, MaxLiveRequests)
    \/ HandleHandshake
    \/ HandleDelta(LongSentence, MaxLiveDeltas)
    \/ HandleAction(MaxLiveActions)
    \/ GatewayEnds
    \/ DrainStep
    \/ \E i \in TaskIds, p \in ProviderOutcomes : TtsWorker(i, p)

SpecLive == Init /\ [][NextLive]_vars /\ WF_vars(GatewayEnds) /\ WF_vars(DrainStep)

\* C36: a streaming request that was started finishes, whatever the TTS
\* workers do; a gateway timeout puts an error event on the stream and ends
\* the generator, and so does every terminal event of the gateway that is
\* not followed by a drain.
C36_RequestFinishes ==
    /\ (pc \in {"loop", "drain"}) ~> (pc = "done")
    /\ [][GatewayTimeout => /\ pc' = "done"
                            /\ out'[Len(out')].type = "error"]_vars
    /\ [][(HandleError \/ \E r \in LiveResponses : HandleTextDone(r, TRUE))
              => pc' \in {"drain", "done"}]_vars

\* the drain is over although the worker of a pending task never finished
C36_Witness ==
    /\ pc = "done"
    /\ Len(pending) > 0
    /\ drainIdx = Len(pending)
    /\ \E k \in 1..Len(pending) : ~tasks[pending[k]].done

(***************************************************************************)
(* Plugin discovery.                                                       *)
(***************************************************************************)
MaxPluginDirs == 2

\* the directories of plugins/, in sorted order
PluginDirLists ==
    UNION {[1..n -> {PluginDir(k, g) : k \in PluginKinds, g \in GatewayIds}] :
               n \in 0..MaxPluginDirs}

NextPlugins ==
    \/ \E g \in GatewayIds, c \in BOOLEAN : Register(g, c)
    \/ \E dirs \in PluginDirLists : LoadPluginsCall(dirs)
    \/ LoadPluginStep

SpecPlugins == Init /\ [][NextPlugins]_vars

\* C37 as stated: a step of the discovery registers the plugin only when
\* every check passed, and otherwise leaves the registry as it was; when the
\* discovery is over every directory whose plugin passes the checks has been
\* loaded: violated, a manifest that is no JSON object ends the discovery
\* with an exception and the later directories are never looked at.
C37_FailureSkipsOnlyThatPlugin ==
    /\ loader.state \in {"returned", "raised"} =>
           \A k \in 1..Len(loader.dirs) :
               loader.dirs[k].kind \in LoadedKinds => k \in Range(loader.loaded)
    /\ \A k \in Range(loader.loaded) : loader.dirs[k].kind \in LoadedKinds
    /\ loader.state # "raised"

(***************************************************************************)
(* The cached key and the counter file under concurrent bumps.            *)
(***************************************************************************)
\* no thread is between the first and the last statement of
\* bump_voice_session
NoBumpInProgress == \A t \in BumpThreads : bpc[t] \in {"idle", "got"}

\* the counters written to the counter file so far, when no bump is in
\* progress: every one of them is the counter of a key that was returned
WrittenCounters == {returned[i].n : i \in 1..Len(returned)}

\* C38 as stated: when no bump is in progress the key get_voice_session_key
\* returns is the key of the highest counter ever written to the file, and
\* of the counter the file holds: violated, a bump that wrote its counter
\* first may set the cache last.
C38_CacheAgreesWithFile ==
    (NoBumpInProgress /\ convCache # NoKey) =>
        /\ GetVoiceSessionKey(convFile, convCache)[1] =
               SessionKeyOf(VoicePrefix, ReadCounter(convFile, DefaultCounter))
        /\ \A n \in WrittenCounters : n <= GetVoiceSessionKey(convFile, convCache)[1].n

(***************************************************************************)
(* Empty responses of concurrent streaming requests.                      *)
(***************************************************************************)
MaxCrossRequests == 2

MaxCrossCalls == 3

NextCrossing ==
    \/ StartRequest(<<"a">>, 0, MaxCrossRequests)
    \/ HandleTextDone(None, TRUE)
    \/ \E t \in BumpThreads : HandlerEmpty(t, MaxCrossCalls)
    \/ \E t \in BumpThreads : BumpRead(t)
    \/ \E t \in BumpThreads : BumpTruncate(t)
    \/ \E t \in BumpThreads : BumpWrite(t)
    \/ \E t \in BumpThreads : BumpReturn(t)

SpecCrossing == Init /\ [][NextCrossing]_vars

\* the empty responses handled so far, by the request in flight and its
\* predecessors and by the other handlers
NumEmpties == Cardinality({i \in 1..Len(doneLog) : doneLog[i].empty}) + nBumpCalls

\* the bumps that have returned, each followed by its session_reset line
NumBumps == Cardinality({i \in 1..Len(returned) : returned[i].op = "bump"})

\* C39 as stated: the counter of consecutive empty responses never exceeds
\* 3, and every bump has three empty responses of its own: violated, a
\* handler that finds the counter at 3 before the bump of another has put
\* it back to 0 makes it 4 and bumps as well.
C39_OneBumpPerCrossing ==
    /\ consecutiveEmpty <= 3
    /\ 3 * NumBumps <= NumEmpties

(***************************************************************************)
(* The drain loop and a worker that ends while the wait expires: the      *)
(* worker's two statements, the write of the result and done.set(), are   *)
(* steps of their own.                                                    *)
(***************************************************************************)
MaxLateRequests == 1

MaxLateDeltas == 2

NextLate ==
    \/ StartRequest(<<"a">>, 0, MaxLateRequests)
    \/ HandleDelta(LongSentence, MaxLateDeltas)
    \/ \E r \in LiveResponses : HandleTextDone(r, TRUE)
    \/ \E i \in TaskIds, p \in ProviderOutcomes : WorkerResult(i, p)
    \/ \E i \in TaskIds : WorkerDone(i)
    \/ DrainTask
    \/ DrainTimeout

SpecLate == Init /\ [][NextLate]_vars

\* C40 as stated: when the wait for a pending task returns with the task's
\* event not set, no line is written for the task and the loop goes on with
\* the next pending task, or ends after the last: violated, the result dict
\* is read whatever the wait returned, and the worker writes it before it
\* sets the event.
C40_ExpiredTaskSilent ==
    [][DrainTimeout => /\ out' = out
                       /\ pc' = DrainNext(drainIdx, FALSE)]_vars

====
